---- MODULE Spec2Model ----
(***************************************************************************)
(* State-machine model of the interception and streaming-cache layer of    *)
(* bolivar's pdfplumber patch (crates/python/python/pdfminer/              *)
(* _bolivar_patch.py).                                                     *)
(*                                                                         *)
(* Part 1: _BolivarTableStream, the bounded streaming cache.               *)
(* Part 2: the interception registry (hook, loader, _apply_patch).         *)
(*                                                                         *)
(* Each part has its own specification; the variables of the other part    *)
(* stay at their initial values.                                           *)
(***************************************************************************)
EXTENDS Integers, Sequences, FiniteSets, TLC

(***************************************************************************)
(* Bounds of the model                                                     *)
(***************************************************************************)
\* Producer indices of the arbitrary producers range over 0..MaxIdx.
MaxIdx == 3
\* An arbitrary producer yields at most MaxLen elements.
MaxLen == 3
\* A scanning producer yields 0..N-1 once each, N <= MaxScan.
MaxScan == 5
\* The constructor's cache_limit argument ranges over -1..MaxW.
MaxW == 2
\* At most MaxCalls calls of patch_pdfplumber() are made.
MaxCalls == 3
\* Scalars and dict keys of configuration values range over 1..MaxScalar.
MaxScalar == 2
\* A list, tuple or dict of a configuration value has at most MaxElems elements.
MaxElems == 2
\* At most MaxWrappers page wrappers are constructed before operations stop.
MaxWrappers == 2
\* At most MaxFailures get_page calls raise.
MaxFailures == 1
\* The document of a page collection has at most MaxDocPages pages.
MaxDocPages == 2
\* At most MaxRouted extract_tables calls are made on the pdf.
MaxRouted == 3
\* The document has at most MaxPages pages.
MaxPages == 3
\* Number of media boxes of a document.
MaxBoxes == 2
\* Largest coordinate of a media box.
MaxCoord == 1
\* A page has at most MaxTables tables, a table at most MaxRows rows.
MaxTables == 2
MaxRows == 2

\* Threads that may call into the layer.
Threads == {1, 2}
\* The value Python's None is modelled by.
None == 0

VARIABLES
    \* ---- _BolivarTableStream (one instance) ----
    producer,        \* what one run of self._stream_factory() yields: producer[k] is
                     \* the page index of the k-th element, its payload is k
    cache_limit,     \* self._cache_limit
    cache,           \* self._cache: page index -> payload
    done,            \* self._done
    max_index_seen,  \* self._max_index_seen
    stream,          \* self._stream: number of elements already pulled from the live run
    lock,            \* self._lock: the thread holding it, 0 when free
    call,            \* per thread: the frame of its get call
    prev,            \* <<index>> of the call that returned last, << >> before any
    last_raised,     \* the get call that ended last ended by raising
    active,          \* the threads that exist in this run
    \* ---- the interception registry (module globals of _bolivar_patch) ----
    HOOK_INSTALLED,  \* _HOOK_INSTALLED
    PATCH_APPLIED,   \* _PATCH_APPLIED
    HOOK_LOCK,       \* _HOOK_LOCK: the thread holding it, 0 when free
    meta_path,       \* the _PdfplumberPatchFinder entries of sys.meta_path: each is
                     \* its set of names
    sys_modules,     \* load state of each pdfplumber module
    wrapped,         \* per module: its loader is a _PdfplumberPatchLoader
    pkg_page,        \* hasattr(pdfplumber, "page")
    installed,       \* per capability: the implementation the target now holds
    gen_count,       \* number of _apply_patch invocations started; invocation g
                     \* creates the function objects with identity g
    frame,           \* per thread: the frame of its call into the registry
    shim_ready,      \* the pdfminer shim is imported (its first patch call returned)
    explicit_calls,  \* number of patch_pdfplumber() calls made
    hook_successes,  \* number of times exec_module set _PATCH_APPLIED
    log_count,       \* number of warnings exec_module logged
    fault,           \* what is wrong with the environment, if anything
    env_opt_out,     \* the process started with BOLIVAR_PDFPLUMBER_PATCH=0
    \* ---- table routing (extract_tables on the pages of one pdf) ----
    settings,        \* the two table_settings values callers pass: <<a, b>>
    doc_pages,       \* number of pages of the document
    page_geoms,      \* per page index: "base" when the page's observed geometry is
                     \* the one _base_geometries computes, "own" when it differs,
                     \* "derived" when the page is not original (cropped, filtered)
    streams,         \* pdf._bolivar_table_streams: set of <<key, instance id>>
    insts,           \* the _BolivarTableStream instances made, by id
    runs,            \* number of Producer runs constructed (_stream_factory() calls)
    routed,          \* the extract_tables calls made so far, in order
    pdf_attrs,       \* the names of the instance attributes the pdf holds among
                     \* _bolivar_table_geom_base and _bolivar_table_streams
    \* ---- BolivarLazyPages (the page collection of one pdf) ----
    page_count,      \* self._doc.page_count()
    pdf_pages_to_parse, \* pdf.pages_to_parse
    page_numbers,    \* self._page_numbers: the canonical indices, filtered
    page_cache,      \* self._page_cache: canonical index -> page wrapper (its id)
    wrappers,        \* number of page wrappers constructed; wrapper k is the k-th
    get_page_calls,  \* per canonical index: number of self._doc.get_page calls
    released,        \* per wrapper id: number of times its close() was called
    siter,           \* the synchronous iteration in progress, if any
    aiter,           \* the asynchronous traversal in progress, if any
    lp_last,         \* what the last operation on the collection did
    \* ---- page geometries (of one pdf) ----
    geom,            \* a record: boxes is doc.page_mediaboxes(), one <<x0, y0, x1, y1>>
                     \* per page; base is pdf._bolivar_table_geom_base; last is the
                     \* last _build_geometries call, its arguments and result; doctops
                     \* is BolivarLazyPages._doctops
    \* ---- extract_table (on one page with one settings value) ----
    table_call,      \* a record: tables is what extract_tables returns for the page
                     \* and the settings, picked what the last extract_table returned
    \* ---- _get_table_stream called by several threads on one pdf ----
    stream_reg       \* a record: attr is pdf._bolivar_table_streams (the id of a map,
                     \* 0 when the attribute is absent), maps the instance maps made
                     \* (key -> instance id), insts the instances made (their key and
                     \* state), frames the frame of each thread's call, calls the
                     \* number of calls made

streamVars == <<producer, cache_limit, cache, done, max_index_seen, stream, lock,
                call, prev, last_raised>>

patchVars == <<HOOK_INSTALLED, PATCH_APPLIED, HOOK_LOCK, meta_path, sys_modules,
               wrapped, pkg_page, installed, gen_count, frame, shim_ready,
               explicit_calls, hook_successes, log_count, fault, env_opt_out>>

routeVars == <<settings, doc_pages, page_geoms, streams, insts, runs, routed,
               pdf_attrs>>

pagesVars == <<page_count, pdf_pages_to_parse, page_numbers, page_cache, wrappers,
               get_page_calls, released, siter, aiter, lp_last>>

geomVars == <<geom>>

tableVars == <<table_call>>

regVars == <<stream_reg>>

vars == <<producer, cache_limit, cache, done, max_index_seen, stream, lock, call,
          prev, last_raised, active, regVars, HOOK_INSTALLED, PATCH_APPLIED, HOOK_LOCK, meta_path,
          sys_modules, wrapped, pkg_page, installed, gen_count, frame, shim_ready,
          explicit_calls, hook_successes, log_count, fault, env_opt_out, settings,
          doc_pages, page_geoms, streams, insts, runs, routed, pdf_attrs, page_count,
          pdf_pages_to_parse, page_numbers, page_cache, wrappers, get_page_calls,
          released, siter, aiter, lp_last, geom, table_call>>

(***************************************************************************)
(* Generic helpers                                                         *)
(***************************************************************************)
Max(a, b) == IF a >= b THEN a ELSE b

EmptyMap == [k \in {} |-> None]

MapPut(m, k, v) == [x \in (DOMAIN m) \cup {k} |-> IF x = k THEN v ELSE m[x]]

MapKeep(m, keys) == [x \in (DOMAIN m) \cap keys |-> m[x]]

\* dict.get(k): the value, or None
MapGet(m, k) == IF k \in DOMAIN m THEN m[k] ELSE None

(***************************************************************************)
(* Part 1: the Producer                                                    *)
(***************************************************************************)
NonDecreasing(p) == \A k \in 1..(Len(p) - 1) : p[k] <= p[k + 1]

\* Producers yielding non-decreasing page indices (repeats and gaps allowed).
ArbitraryProducers ==
    {p \in UNION {[1..n -> 0..MaxIdx] : n \in 0..MaxLen} : NonDecreasing(p)}

\* The Producer that yields (0,T0) .. (n-1,Tn-1).
Scan(n) == [k \in 1..n |-> k - 1]

ScanProducers == {Scan(n) : n \in 0..MaxScan}

\* The payload of the k-th element of a run.
Payload(k) == k

\* Page indices a caller may ask for: from one below the first possible index to one
\* above the last index the run yields (every larger index behaves like that one).
Indices(p) == -1..(IF Len(p) = 0 THEN 0 ELSE p[Len(p)] + 1)

\* What a single forward scan of a run yields for page index i: the payload of the
\* first element carrying i, None when there is none.
ForwardScan(p, i) ==
    IF \E k \in 1..Len(p) : p[k] = i
    THEN Payload(CHOOSE k \in 1..Len(p) : p[k] = i /\ \A j \in 1..(k - 1) : p[j] # i)
    ELSE None

(***************************************************************************)
(* Part 1: _BolivarTableStream                                             *)
(***************************************************************************)
IdleCall == [pc |-> "idle", page_index |-> None, result |-> None, raised |-> FALSE,
             path |-> "none",
             after |-> << >>, fresh |-> 0, pulls |-> 0, scanned |-> 0,
             pre |-> [retained |-> FALSE, max |-> -1, done |-> FALSE]]

\* __init__: self._cache_limit = max(int(cache_limit), 0)
ClampLimit(cache_limit_arg) == Max(cache_limit_arg, 0)

\* Mutants of the cache's decisions (used to show the properties depend on them).
EvictCacheKeepsOneMore(c, limit, newest_index) ==
    IF limit <= 0
    THEN EmptyMap
    ELSE MapKeep(c, {key \in DOMAIN c : ~(key < newest_index - limit)})

NeedsReplayOnlyWhenDone(page_index, max_seen, is_done) == is_done

NeedsReplayOnlyWhenBelow(page_index, max_seen, is_done) == page_index < max_seen

LockAlwaysFree(l) == TRUE

DoneAfterErrorSet(is_done) == TRUE

DoneAfterStopKept(is_done) == is_done

ReplayStopsNever(idx, page_index) == FALSE

MaxIndexSeenKept(max_seen, idx) == max_seen

CacheAfterReplayStores(c, page_index, tables) == MapPut(c, page_index, tables)

\* _evict_cache(newest_index)
EvictCache(c, limit, newest_index) ==
    IF limit <= 0
    THEN EmptyMap
    ELSE MapKeep(c, {key \in DOMAIN c : ~(key < newest_index - (limit - 1))})

\* get: "if page_index in self._cache"
IsHit(c, page_index) == page_index \in DOMAIN c

\* get: "if page_index < self._max_index_seen or self._done"
NeedsReplay(page_index, max_seen, is_done) == page_index < max_seen \/ is_done

\* the lock can be taken by a thread when nobody holds it
LockFree(l) == l = 0

\* A thread calls get(page_index) and queues on self._lock.
GetCall(t, i) ==
    /\ t \in active
    /\ call[t].pc = "idle"
    /\ call' = [call EXCEPT ![t] = [IdleCall EXCEPT !.pc = "wait", !.page_index = i,
                                                   !.after = prev]]
    /\ UNCHANGED <<producer, cache_limit, cache, done, max_index_seen, stream, lock,
                   prev, last_raised, active, regVars, geomVars, tableVars, patchVars, routeVars,
                   pagesVars>>

\* "with self._lock:" is entered.
GetAcquire(t) ==
    /\ call[t].pc = "wait"
    /\ LockFree(lock)
    /\ lock' = t
    /\ call' = [call EXCEPT ![t].pc = "check"]
    /\ UNCHANGED <<producer, cache_limit, cache, done, max_index_seen, stream, prev,
                   last_raised, active, regVars, geomVars, tableVars, patchVars, routeVars,
                   pagesVars>>

\* The two tests at the top of get choose the path: hit, replay or live pull.
GetCheck(t) ==
    /\ call[t].pc = "check"
    /\ LET i == call[t].page_index
           snap == [retained |-> i \in DOMAIN cache, max |-> max_index_seen,
                    done |-> done]
       IN IF IsHit(cache, i)
          THEN call' = [call EXCEPT ![t].pc = "exit", ![t].path = "hit",
                                    ![t].result = cache[i], ![t].pre = snap]
          ELSE IF NeedsReplay(i, max_index_seen, done)
          THEN \* _get_from_fresh_stream: stream = iter(self._stream_factory())
               call' = [call EXCEPT ![t].pc = "replay", ![t].path = "replay",
                                    ![t].fresh = @ + 1, ![t].pre = snap]
          ELSE call' = [call EXCEPT ![t].pc = "pull", ![t].path = "live",
                                    ![t].pre = snap]
    /\ UNCHANGED <<producer, cache_limit, cache, done, max_index_seen, stream, lock,
                   prev, last_raised, active, regVars, geomVars, tableVars, patchVars, routeVars,
                   pagesVars>>

\* _get_from_fresh_stream: "if idx == page_index: return tables" stores nothing
CacheAfterReplay(c, page_index, tables) == c

\* _get_from_fresh_stream: "if idx > page_index: break"
ReplayStops(idx, page_index) == idx > page_index

\* One iteration of the for loop of _get_from_fresh_stream.
ReplayStep(t) ==
    /\ call[t].pc = "replay"
    /\ LET i == call[t].page_index
           k == call[t].scanned + 1
       IN IF k > Len(producer)
          THEN \* the fresh run is exhausted: return None
               call' = [call EXCEPT ![t].pc = "exit", ![t].result = None]
          ELSE IF producer[k] = i
          THEN call' = [call EXCEPT ![t].pc = "exit", ![t].scanned = k,
                                    ![t].result = Payload(k)]
          ELSE IF ReplayStops(producer[k], i)
          THEN call' = [call EXCEPT ![t].pc = "exit", ![t].scanned = k,
                                    ![t].result = None]
          ELSE call' = [call EXCEPT ![t].scanned = k]
    /\ LET i == call[t].page_index
           k == call[t].scanned + 1
       IN cache' = IF k <= Len(producer) /\ producer[k] = i
                   THEN CacheAfterReplay(cache, i, Payload(k))
                   ELSE cache
    /\ UNCHANGED <<producer, cache_limit, done, max_index_seen, stream, lock,
                   prev, last_raised, active, regVars, geomVars, tableVars, patchVars, routeVars,
                   pagesVars>>

\* get: "if idx > self._max_index_seen: self._max_index_seen = idx"
MaxIndexSeen(max_seen, idx) == IF idx > max_seen THEN idx ELSE max_seen

\* get: "except StopIteration: self._done = True"
DoneAfterStop(is_done) == TRUE

\* One iteration of "while page_index not in self._cache", and the return after it.
PullStep(t) ==
    /\ call[t].pc = "pull"
    /\ LET i == call[t].page_index
       IN IF i \in DOMAIN cache
          THEN /\ call' = [call EXCEPT ![t].pc = "exit", ![t].result = MapGet(cache, i)]
               /\ UNCHANGED <<cache, done, max_index_seen, stream>>
          ELSE IF stream >= Len(producer)
          THEN \* StopIteration: self._done = True; break
               /\ done' = DoneAfterStop(done)
               /\ call' = [call EXCEPT ![t].pc = "exit", ![t].result = MapGet(cache, i)]
               /\ UNCHANGED <<cache, max_index_seen, stream>>
          ELSE LET k == stream + 1
                   idx == producer[k]
               IN /\ stream' = k
                  /\ max_index_seen' = MaxIndexSeen(max_index_seen, idx)
                  /\ cache' = EvictCache(MapPut(cache, idx, Payload(k)),
                                         cache_limit, idx)
                  /\ call' = [call EXCEPT ![t].pulls = @ + 1]
                  /\ UNCHANGED done
    /\ UNCHANGED <<producer, cache_limit, lock, prev, last_raised, active, regVars, geomVars,
                   tableVars, patchVars, routeVars, pagesVars>>

\* get: "except StopIteration" is the only handler around next(self._stream); any
\* other error leaves self._done as it is.
DoneAfterError(is_done) == is_done

\* The live iterator after it raised: it resumes at the same element, has dropped it,
\* or is finished (the iterator is native code; each is an outcome it can have).
LiveAfterError(pos, len) == {pos, IF pos < len THEN pos + 1 ELSE pos, len}

\* next(self._stream) raises an error other than StopIteration: it leaves the while
\* loop and the with block, and propagates to the caller of get.
PullFail(t) ==
    /\ call[t].pc = "pull"
    /\ call[t].page_index \notin DOMAIN cache
    /\ \E pos \in LiveAfterError(stream, Len(producer)) : stream' = pos
    /\ done' = DoneAfterError(done)
    /\ call' = [call EXCEPT ![t].pc = "exit", ![t].raised = TRUE]
    /\ UNCHANGED <<producer, cache_limit, cache, max_index_seen, lock, prev,
                   last_raised, active, regVars, geomVars, tableVars, patchVars, routeVars,
                   pagesVars>>

\* The with block is left: the lock is released and get returns.
GetReturn(t) ==
    /\ call[t].pc = "exit"
    /\ lock' = 0
    /\ call' = [call EXCEPT ![t].pc = "returned"]
    /\ prev' = <<call[t].page_index>>
    /\ last_raised' = call[t].raised
    /\ UNCHANGED <<producer, cache_limit, cache, done, max_index_seen, stream, active, regVars,
                   geomVars, tableVars, patchVars, routeVars, pagesVars>>

\* The caller takes the result; the thread may call again.
GetDone(t) ==
    /\ call[t].pc = "returned"
    /\ call' = [call EXCEPT ![t] = IdleCall]
    /\ UNCHANGED <<producer, cache_limit, cache, done, max_index_seen, stream, lock,
                   prev, last_raised, active, regVars, geomVars, tableVars, patchVars, routeVars,
                   pagesVars>>

\* __init__(stream_factory, cache_limit)
StreamInit(p, cache_limit_arg) ==
    /\ producer = p
    /\ cache_limit = ClampLimit(cache_limit_arg)
    /\ cache = EmptyMap
    /\ done = FALSE
    /\ max_index_seen = -1
    /\ stream = 0
    /\ lock = 0
    /\ call = [t \in Threads |-> IdleCall]
    /\ prev = << >>
    /\ last_raised = FALSE

StreamNext ==
    \/ \E t \in Threads, i \in Indices(producer) : GetCall(t, i)
    \/ \E t \in Threads : GetAcquire(t)
    \/ \E t \in Threads : GetCheck(t)
    \/ \E t \in Threads : ReplayStep(t)
    \/ \E t \in Threads : PullStep(t)
    \/ \E t \in Threads : GetReturn(t)
    \/ \E t \in Threads : GetDone(t)

\* get with a live Producer that may raise.
StreamFailNext ==
    \/ StreamNext
    \/ \E t \in Threads : PullFail(t)

(***************************************************************************)
(* Part 2: the interception registry                                       *)
(***************************************************************************)
\* The tracked modules. pdfplumber/__init__.py imports .pdf, which imports .page.
Pkg == "pdfplumber"
PdfMod == "pdfplumber.pdf"
PageMod == "pdfplumber.page"
Mods == {Pkg, PdfMod, PageMod}

\* The thread that imports pdfplumber (one thread loads all three modules: the import
\* system's module locks make every other importer wait for it).
Importer == 1

\* The attributes _apply_patch installs on the target.
Caps == {"extract_tables", "extract_table", "pages", "close", "aenter", "repair"}
MarkedCaps == {"extract_tables", "extract_table", "pages", "close"}

\* What can be wrong with the environment: Page has no extract_tables ("lookup"), the
\* native bolivar functions cannot be imported ("native"), bolivar.repair_pdf cannot be
\* imported ("repair").
Faults == {"none", "lookup", "native", "repair"}

\* The target's own implementation of a capability.
Original == [fn |-> 0, marked |-> FALSE, wraps |-> 0]

IdleFrame == [pc |-> "idle", ctx |-> "none", module |-> "none", names |-> {},
              gen |-> 0, already_patched |-> FALSE, has_pdf |-> FALSE,
              need |-> FALSE, pages_patched |-> FALSE, result |-> "none",
              pre_patched |-> FALSE]

ApplyPcs == {"ap_resolve", "ap_tables", "ap_table", "ap_import_pdf", "ap_pages_check",
             "ap_pages_set", "ap_close_check", "ap_close_set", "ap_aenter",
             "ap_verify", "ap_repair"}

\* Mutants of the registry's decisions.
NewImplWrapping(g, mark, old) == [fn |-> g, marked |-> mark, wraps |-> old.fn]

AlreadyPatchedNever(inst) == FALSE

HookSkipsNever(applied) == FALSE

InstallSkipsNever(applied) == FALSE

UpdateNamesInserts(mp, names) == <<names>> \o mp

ShimPatchesUnlessOptOut(opt_out) == ~opt_out

ImportedByPkg(m) == Pkg

HookLockAlwaysFree(l) == TRUE

OnHookOutcomeDropsOnDecline(outcome) ==
    [apply |-> outcome = "True",
     remove |-> TRUE,
     log |-> outcome = "raised",
     propagate |-> FALSE]

\* A function object created by invocation g of _apply_patch; _mark_patched sets its
\* marker. No implementation the patch installs calls the one it replaces.
NewImpl(g, mark, old) == [fn |-> g, marked |-> mark, wraps |-> 0]

\* getattr(page_mod.Page.extract_tables, "_bolivar_patched", False)
AlreadyPatched(inst) == inst["extract_tables"].marked

\* exec_module: "if _PATCH_APPLIED: return"
HookSkips(applied) == applied

\* _install_hook: "if _PATCH_APPLIED: return"
InstallSkips(applied) == applied

\* _install_hook, hook installed: "finder.names.update(names)" for every patch finder
UpdateNames(mp, names) == [k \in DOMAIN mp |-> mp[k] \cup names]

\* exec_module: what it does with the outcome of _apply_patch(module).
OnHookOutcome(outcome) ==
    [apply |-> outcome = "True",
     remove |-> outcome \in {"True", "raised"},
     log |-> outcome = "raised",
     propagate |-> FALSE]

\* _remove_hook_unlocked
RemoveHookUnlocked(flag, mp) ==
    IF ~flag THEN [flag |-> flag, meta_path |-> mp]
    ELSE [flag |-> FALSE, meta_path |-> << >>]

\* _PdfplumberPatchFinder.find_spec: the loader is wrapped when a finder tracks the name
FinderWraps(mp, name) == \E k \in 1..Len(mp) : name \in mp[k]

\* The module has run its body (its classes exist).
Executed(m) == sys_modules[m] \in {"executed", "loaded"}

\* _apply_patch lines 82-94: the page module the call works on, None if there is none.
PageModOf(m) ==
    IF m = Pkg THEN (IF pkg_page THEN PageMod ELSE "none")
    ELSE IF m = PageMod THEN PageMod
    ELSE IF sys_modules[PageMod] # "absent" THEN PageMod ELSE "none"

\* Every attribute the patch installs is installed.
FullyPatched == \A c \in Caps : installed[c].fn # 0

AllLoaded == \A m \in Mods : sys_modules[m] = "loaded"

\* Where control goes when _apply_patch ends.
AfterApply(ctx) == IF ctx = "explicit" THEN "returned" ELSE "hook_handle"

\* The body of the pdfminer shim (pdfminer/__init__.py) ends with
\* _shim_registry.apply_pdfplumber_patch(), which calls patch_pdfplumber(): the call
\* is made whatever the environment holds.
ShimPatches(opt_out) == TRUE

\* patch_pdfplumber(): reads sys.modules and either applies the patch or installs the
\* hook. The first call is the one the shim makes when pdfminer is imported.
PatchCall(t) ==
    /\ t \in active
    /\ frame[t].pc = "idle"
    /\ explicit_calls < MaxCalls
    \* the importing thread runs other code only before, after, or at the
    \* "import pdfminer" of pdfplumber/__init__.py
    /\ t = Importer => \/ \A m \in Mods : sys_modules[m] = "absent"
                       \/ AllLoaded
                       \/ sys_modules[Pkg] = "loading" /\ sys_modules[PdfMod] = "absent"
    /\ explicit_calls' = explicit_calls + 1
    /\ IF explicit_calls = 0 /\ ~ShimPatches(env_opt_out)
       THEN frame' = [frame EXCEPT ![t] = [IdleFrame EXCEPT !.pc = "returned",
                          !.ctx = "explicit", !.result = "False"]]
       ELSE IF sys_modules[Pkg] # "absent" /\ pkg_page
       THEN frame' = [frame EXCEPT ![t] = [IdleFrame EXCEPT !.pc = "ap_resolve",
                          !.ctx = "explicit", !.module = Pkg,
                          !.pre_patched = (FullyPatched /\ AllLoaded)]]
       ELSE IF sys_modules[Pkg] # "absent"
       THEN frame' = [frame EXCEPT ![t] = [IdleFrame EXCEPT !.pc = "ih_wait",
                          !.ctx = "explicit", !.names = {PageMod, PdfMod}]]
       ELSE frame' = [frame EXCEPT ![t] = [IdleFrame EXCEPT !.pc = "ih_wait",
                          !.ctx = "explicit", !.names = Mods]]
    /\ UNCHANGED <<HOOK_INSTALLED, PATCH_APPLIED, HOOK_LOCK, meta_path, sys_modules,
                   wrapped, pkg_page, installed, gen_count, shim_ready, hook_successes,
                   log_count, fault, env_opt_out, active, regVars, geomVars, tableVars,
                   streamVars, routeVars, pagesVars>>

\* _HOOK_LOCK = threading.Lock(): it can be taken when nobody holds it.
HookLockFree(l) == l = 0

\* _install_hook: "with _HOOK_LOCK:" is entered.
InstallHookAcquire(t) ==
    /\ frame[t].pc = "ih_wait"
    /\ HookLockFree(HOOK_LOCK)
    /\ HOOK_LOCK' = t
    /\ frame' = [frame EXCEPT ![t].pc = "ih_body"]
    /\ UNCHANGED <<HOOK_INSTALLED, PATCH_APPLIED, meta_path, sys_modules, wrapped,
                   pkg_page, installed, gen_count, shim_ready, explicit_calls,
                   hook_successes, log_count, fault, env_opt_out, active, regVars, geomVars,
                   tableVars, streamVars, routeVars, pagesVars>>

\* _install_hook: the body under the lock, the release, and patch_pdfplumber's
\* "return False".
InstallHookBody(t) ==
    /\ frame[t].pc = "ih_body"
    /\ IF InstallSkips(PATCH_APPLIED)
       THEN UNCHANGED <<HOOK_INSTALLED, meta_path>>
       ELSE IF HOOK_INSTALLED
       THEN /\ meta_path' = UpdateNames(meta_path, frame[t].names)
            /\ UNCHANGED HOOK_INSTALLED
       ELSE /\ meta_path' = <<frame[t].names>> \o meta_path
            /\ HOOK_INSTALLED' = TRUE
    /\ HOOK_LOCK' = 0
    /\ frame' = [frame EXCEPT ![t].pc = "returned", ![t].result = "False"]
    /\ UNCHANGED <<PATCH_APPLIED, sys_modules, wrapped, pkg_page, installed, gen_count,
                   shim_ready, explicit_calls, hook_successes, log_count, fault,
                   env_opt_out, active, regVars, geomVars, tableVars, streamVars, routeVars,
                   pagesVars>>

\* The caller of patch_pdfplumber() gets its result (or its exception).
PatchDone(t) ==
    /\ frame[t].pc = "returned"
    /\ frame' = [frame EXCEPT ![t] = IdleFrame]
    /\ shim_ready' = TRUE
    /\ UNCHANGED <<HOOK_INSTALLED, PATCH_APPLIED, HOOK_LOCK, meta_path, sys_modules,
                   wrapped, pkg_page, installed, gen_count, explicit_calls,
                   hook_successes, log_count, fault, env_opt_out, active, regVars, geomVars,
                   tableVars, streamVars, routeVars, pagesVars>>

\* The module whose body imports m first: pdfplumber/__init__.py has "from .pdf import
\* PDF" and pdfplumber/pdf.py has "from .page import Page".
ImportedBy(m) == IF m = PageMod THEN PdfMod ELSE Pkg

\* The import of a module starts: find_spec decides whether its loader is wrapped, and
\* the module enters sys.modules.
LoadStart(m) ==
    /\ Importer \in active
    /\ frame[Importer].pc = "idle"
    /\ sys_modules[m] = "absent"
    /\ \/ m = Pkg
       \* "from .pdf import PDF" comes after "import pdfminer", which runs the shim's
       \* patch_pdfplumber() when pdfminer is not imported yet
       \/ m # Pkg /\ sys_modules[ImportedBy(m)] = "loading" /\ (m = PdfMod => shim_ready)
    /\ sys_modules' = [sys_modules EXCEPT ![m] = "loading"]
    /\ wrapped' = [wrapped EXCEPT ![m] = FinderWraps(meta_path, m)]
    /\ UNCHANGED <<HOOK_INSTALLED, PATCH_APPLIED, HOOK_LOCK, meta_path, pkg_page,
                   installed, gen_count, frame, shim_ready, explicit_calls,
                   hook_successes, log_count, fault, env_opt_out, active, regVars, geomVars,
                   tableVars, streamVars, routeVars, pagesVars>>

\* The inner loader's exec_module returns: the module's body has run. An unwrapped
\* module is loaded; a wrapped one goes on to "with _HOOK_LOCK:".
BodyDone(m) ==
    /\ frame[Importer].pc = "idle"
    /\ sys_modules[m] = "loading"
    /\ \/ m = PageMod
       \/ m = PdfMod /\ sys_modules[PageMod] = "loaded"
       \/ m = Pkg /\ sys_modules[PdfMod] = "loaded"
    /\ IF wrapped[m]
       THEN /\ sys_modules' = [sys_modules EXCEPT ![m] = "executed"]
            /\ frame' = [frame EXCEPT ![Importer] =
                            [IdleFrame EXCEPT !.pc = "hook_wait", !.ctx = "hook",
                                              !.module = m]]
            /\ UNCHANGED pkg_page
       ELSE /\ sys_modules' = [sys_modules EXCEPT ![m] = "loaded"]
            /\ pkg_page' = (pkg_page \/ m = PageMod)
            /\ UNCHANGED frame
    /\ UNCHANGED <<HOOK_INSTALLED, PATCH_APPLIED, HOOK_LOCK, meta_path, wrapped,
                   installed, gen_count, shim_ready, explicit_calls, hook_successes,
                   log_count, fault, env_opt_out, active, regVars, geomVars, tableVars,
                   streamVars, routeVars, pagesVars>>

\* exec_module: "with _HOOK_LOCK:" is entered.
HookAcquire(t) ==
    /\ frame[t].pc = "hook_wait"
    /\ HookLockFree(HOOK_LOCK)
    /\ HOOK_LOCK' = t
    /\ frame' = [frame EXCEPT ![t].pc = "hook_check"]
    /\ UNCHANGED <<HOOK_INSTALLED, PATCH_APPLIED, meta_path, sys_modules, wrapped,
                   pkg_page, installed, gen_count, shim_ready, explicit_calls,
                   hook_successes, log_count, fault, env_opt_out, active, regVars, geomVars,
                   tableVars, streamVars, routeVars, pagesVars>>

\* exec_module: "if _PATCH_APPLIED: return", else _apply_patch(module) is called.
HookCheck(t) ==
    /\ frame[t].pc = "hook_check"
    /\ IF HookSkips(PATCH_APPLIED)
       THEN frame' = [frame EXCEPT ![t].pc = "hook_exit", ![t].result = "skipped"]
       ELSE frame' = [frame EXCEPT ![t].pc = "ap_resolve"]
    /\ UNCHANGED <<HOOK_INSTALLED, PATCH_APPLIED, HOOK_LOCK, meta_path, sys_modules,
                   wrapped, pkg_page, installed, gen_count, shim_ready, explicit_calls,
                   hook_successes, log_count, fault, env_opt_out, active, regVars, geomVars,
                   tableVars, streamVars, routeVars, pagesVars>>

\* exec_module: the outcome of _apply_patch is handled (lines 622-627), lock still held.
HookHandle(t) ==
    /\ frame[t].pc = "hook_handle"
    /\ LET h == OnHookOutcome(frame[t].result)
           r == IF h.remove THEN RemoveHookUnlocked(HOOK_INSTALLED, meta_path)
                ELSE [flag |-> HOOK_INSTALLED, meta_path |-> meta_path]
       IN /\ PATCH_APPLIED' = (PATCH_APPLIED \/ h.apply)
          /\ hook_successes' = hook_successes + (IF h.apply THEN 1 ELSE 0)
          /\ log_count' = log_count + (IF h.log THEN 1 ELSE 0)
          /\ HOOK_INSTALLED' = r.flag
          /\ meta_path' = r.meta_path
          /\ frame' = [frame EXCEPT ![t].pc = IF h.propagate THEN "hook_raise"
                                             ELSE "hook_exit"]
    /\ UNCHANGED <<HOOK_LOCK, sys_modules, wrapped, pkg_page, installed, gen_count,
                   shim_ready, explicit_calls, fault, env_opt_out, active, regVars, geomVars,
                   tableVars, streamVars, routeVars, pagesVars>>

\* exec_module returns (or raises): the lock is released and the import of the module
\* completes; the import system binds a loaded submodule on its parent package.
HookRelease(t) ==
    /\ frame[t].pc \in {"hook_exit", "hook_raise"}
    /\ HOOK_LOCK' = 0
    /\ sys_modules' = [sys_modules EXCEPT ![frame[t].module] =
                          IF frame[t].pc = "hook_exit" THEN "loaded" ELSE "failed"]
    /\ pkg_page' = (pkg_page \/ (frame[t].module = PageMod /\ frame[t].pc = "hook_exit"))
    /\ frame' = [frame EXCEPT ![t] = IdleFrame]
    /\ UNCHANGED <<HOOK_INSTALLED, PATCH_APPLIED, meta_path, wrapped, installed,
                   gen_count, shim_ready, explicit_calls, hook_successes, log_count,
                   fault, env_opt_out, active, regVars, geomVars, tableVars, streamVars,
                   routeVars, pagesVars>>

\* _apply_patch lines 82-102: resolve the page module (binding it on the package when
\* the package lacks it), read the marker of Page.extract_tables, import the native
\* functions. Any of the lookups and imports may raise.
ApplyResolve(t) ==
    /\ frame[t].pc = "ap_resolve"
    /\ LET m == frame[t].module
           page_mod == PageModOf(m)
           g == gen_count + 1
       IN /\ gen_count' = g
          /\ pkg_page' = (pkg_page \/ (m \in {PageMod, PdfMod} /\ page_mod # "none"
                                       /\ sys_modules[Pkg] # "absent"))
          /\ IF page_mod = "none"
             THEN frame' = [frame EXCEPT ![t].pc = AfterApply(frame[t].ctx),
                                         ![t].gen = g, ![t].result = "False"]
             ELSE IF ~Executed(page_mod) \/ fault \in {"lookup", "native"}
             THEN frame' = [frame EXCEPT ![t].pc = AfterApply(frame[t].ctx),
                                         ![t].gen = g, ![t].result = "raised"]
             ELSE frame' = [frame EXCEPT ![t].pc = "ap_tables", ![t].gen = g,
                                ![t].already_patched = AlreadyPatched(installed)]
    /\ UNCHANGED <<HOOK_INSTALLED, PATCH_APPLIED, HOOK_LOCK, meta_path, sys_modules,
                   wrapped, installed, shim_ready, explicit_calls, hook_successes,
                   log_count, fault, env_opt_out, active, regVars, geomVars, tableVars,
                   streamVars, routeVars, pagesVars>>

\* lines 275-325: "if not already_patched:" Page.extract_tables is substituted.
ApplyTables(t) ==
    /\ frame[t].pc = "ap_tables"
    /\ IF ~frame[t].already_patched
       THEN /\ installed' = [installed EXCEPT !["extract_tables"] =
                                 NewImpl(frame[t].gen, TRUE, @)]
            /\ frame' = [frame EXCEPT ![t].pc = "ap_table"]
       ELSE /\ frame' = [frame EXCEPT ![t].pc = "ap_import_pdf"]
            /\ UNCHANGED installed
    /\ UNCHANGED <<HOOK_INSTALLED, PATCH_APPLIED, HOOK_LOCK, meta_path, sys_modules,
                   wrapped, pkg_page, gen_count, shim_ready, explicit_calls,
                   hook_successes, log_count, fault, env_opt_out, active, regVars, geomVars,
                   tableVars, streamVars, routeVars, pagesVars>>

\* lines 326-327: Page.extract_table is substituted.
ApplyTable(t) ==
    /\ frame[t].pc = "ap_table"
    /\ installed' = [installed EXCEPT !["extract_table"] = NewImpl(frame[t].gen, TRUE, @)]
    /\ frame' = [frame EXCEPT ![t].pc = "ap_import_pdf"]
    /\ UNCHANGED <<HOOK_INSTALLED, PATCH_APPLIED, HOOK_LOCK, meta_path, sys_modules,
                   wrapped, pkg_page, gen_count, shim_ready, explicit_calls,
                   hook_successes, log_count, fault, env_opt_out, active, regVars, geomVars,
                   tableVars, streamVars, routeVars, pagesVars>>

\* lines 465-473: "import pdfplumber.pdf". The importing thread gets the module as it
\* is (without its PDF class while its body is still running); any other thread waits
\* for the module's import lock.
ApplyImportPdf(t) ==
    /\ frame[t].pc = "ap_import_pdf"
    /\ IF sys_modules[PdfMod] = "absent"
       THEN \* the statement loads the module: find_spec wraps its loader when a finder
            \* tracks it, its body runs, and a wrapping loader's exec_module goes on
            \* to "with _HOOK_LOCK:" in the same thread, inside this call
            /\ wrapped' = [wrapped EXCEPT ![PdfMod] = FinderWraps(meta_path, PdfMod)]
            /\ IF FinderWraps(meta_path, PdfMod)
               THEN /\ sys_modules' = [sys_modules EXCEPT ![PdfMod] = "executed"]
                    /\ frame' = [frame EXCEPT ![t] =
                                    [IdleFrame EXCEPT !.pc = "hook_wait", !.ctx = "hook",
                                                      !.module = PdfMod]]
               ELSE /\ sys_modules' = [sys_modules EXCEPT ![PdfMod] = "loaded"]
                    /\ frame' = [frame EXCEPT ![t].has_pdf = TRUE,
                                              ![t].pc = "ap_pages_check"]
       ELSE /\ t = Importer \/ sys_modules[PdfMod] = "loaded"
            /\ frame' = [frame EXCEPT ![t].has_pdf = Executed(PdfMod),
                                      ![t].pc = IF Executed(PdfMod) THEN "ap_pages_check"
                                                ELSE "ap_verify"]
            /\ UNCHANGED <<sys_modules, wrapped>>
    /\ UNCHANGED <<HOOK_INSTALLED, PATCH_APPLIED, HOOK_LOCK, meta_path,
                   pkg_page, installed, gen_count, shim_ready, explicit_calls,
                   hook_successes, log_count, fault, env_opt_out, active, regVars, geomVars,
                   tableVars, streamVars, routeVars, pagesVars>>

\* lines 474-480: is the getter of PDF.pages marked?
ApplyPagesCheck(t) ==
    /\ frame[t].pc = "ap_pages_check"
    /\ frame' = [frame EXCEPT ![t].need = ~installed["pages"].marked,
                              ![t].pc = "ap_pages_set"]
    /\ UNCHANGED <<HOOK_INSTALLED, PATCH_APPLIED, HOOK_LOCK, meta_path, sys_modules,
                   wrapped, pkg_page, installed, gen_count, shim_ready, explicit_calls,
                   hook_successes, log_count, fault, env_opt_out, active, regVars, geomVars,
                   tableVars, streamVars, routeVars, pagesVars>>

\* lines 482-491: PDF.pages is substituted.
ApplyPagesSet(t) ==
    /\ frame[t].pc = "ap_pages_set"
    /\ installed' = IF frame[t].need
                    THEN [installed EXCEPT !["pages"] = NewImpl(frame[t].gen, TRUE, @)]
                    ELSE installed
    /\ frame' = [frame EXCEPT ![t].pc = "ap_close_check", ![t].need = FALSE]
    /\ UNCHANGED <<HOOK_INSTALLED, PATCH_APPLIED, HOOK_LOCK, meta_path, sys_modules,
                   wrapped, pkg_page, gen_count, shim_ready, explicit_calls,
                   hook_successes, log_count, fault, env_opt_out, active, regVars, geomVars,
                   tableVars, streamVars, routeVars, pagesVars>>

\* lines 493-496: is PDF.close marked?
ApplyCloseCheck(t) ==
    /\ frame[t].pc = "ap_close_check"
    /\ frame' = [frame EXCEPT ![t].need = ~installed["close"].marked,
                              ![t].pc = "ap_close_set"]
    /\ UNCHANGED <<HOOK_INSTALLED, PATCH_APPLIED, HOOK_LOCK, meta_path, sys_modules,
                   wrapped, pkg_page, installed, gen_count, shim_ready, explicit_calls,
                   hook_successes, log_count, fault, env_opt_out, active, regVars, geomVars,
                   tableVars, streamVars, routeVars, pagesVars>>

\* lines 498-511: PDF.close is substituted.
ApplyCloseSet(t) ==
    /\ frame[t].pc = "ap_close_set"
    /\ installed' = IF frame[t].need
                    THEN [installed EXCEPT !["close"] = NewImpl(frame[t].gen, TRUE, @)]
                    ELSE installed
    /\ frame' = [frame EXCEPT ![t].pc = "ap_aenter", ![t].need = FALSE]
    /\ UNCHANGED <<HOOK_INSTALLED, PATCH_APPLIED, HOOK_LOCK, meta_path, sys_modules,
                   wrapped, pkg_page, gen_count, shim_ready, explicit_calls,
                   hook_successes, log_count, fault, env_opt_out, active, regVars, geomVars,
                   tableVars, streamVars, routeVars, pagesVars>>

\* lines 513-529: the async context methods are added when PDF has none.
ApplyAenter(t) ==
    /\ frame[t].pc = "ap_aenter"
    /\ installed' = IF installed["aenter"].fn = 0
                    THEN [installed EXCEPT !["aenter"] = NewImpl(frame[t].gen, FALSE, @)]
                    ELSE installed
    /\ frame' = [frame EXCEPT ![t].pc = "ap_verify"]
    /\ UNCHANGED <<HOOK_INSTALLED, PATCH_APPLIED, HOOK_LOCK, meta_path, sys_modules,
                   wrapped, pkg_page, gen_count, shim_ready, explicit_calls,
                   hook_successes, log_count, fault, env_opt_out, active, regVars, geomVars,
                   tableVars, streamVars, routeVars, pagesVars>>

\* lines 531-543: pdf_pages_patched.
ApplyVerify(t) ==
    /\ frame[t].pc = "ap_verify"
    /\ frame' = [frame EXCEPT ![t].pages_patched =
                                  (Executed(PdfMod) /\ installed["pages"].marked),
                              ![t].pc = "ap_repair"]
    /\ UNCHANGED <<HOOK_INSTALLED, PATCH_APPLIED, HOOK_LOCK, meta_path, sys_modules,
                   wrapped, pkg_page, installed, gen_count, shim_ready, explicit_calls,
                   hook_successes, log_count, fault, env_opt_out, active, regVars, geomVars,
                   tableVars, streamVars, routeVars, pagesVars>>

\* lines 545-594: the repair functions are substituted (the import of
\* bolivar.repair_pdf may raise), and _apply_patch returns pdf_pages_patched.
ApplyRepair(t) ==
    /\ frame[t].pc = "ap_repair"
    /\ IF fault = "repair"
       THEN /\ frame' = [frame EXCEPT ![t].pc = AfterApply(frame[t].ctx),
                                      ![t].result = "raised"]
            /\ UNCHANGED installed
       ELSE /\ installed' = [installed EXCEPT !["repair"] =
                                 NewImpl(frame[t].gen, FALSE, @)]
            /\ frame' = [frame EXCEPT ![t].pc = AfterApply(frame[t].ctx),
                             ![t].result = IF frame[t].pages_patched THEN "True"
                                           ELSE "False"]
    /\ UNCHANGED <<HOOK_INSTALLED, PATCH_APPLIED, HOOK_LOCK, meta_path, sys_modules,
                   wrapped, pkg_page, gen_count, shim_ready, explicit_calls,
                   hook_successes, log_count, fault, env_opt_out, active, regVars, geomVars,
                   tableVars, streamVars, routeVars, pagesVars>>

\* _remove_hook() is called.
RemoveHookCall(t) ==
    /\ t \in active
    /\ frame[t].pc = "idle"
    \* the importing thread runs other code only before or after the import
    /\ t = Importer => \/ \A m \in Mods : sys_modules[m] = "absent"
                       \/ AllLoaded
    /\ frame' = [frame EXCEPT ![t] = [IdleFrame EXCEPT !.pc = "rh_wait",
                                                       !.ctx = "remove"]]
    /\ UNCHANGED <<HOOK_INSTALLED, PATCH_APPLIED, HOOK_LOCK, meta_path, sys_modules,
                   wrapped, pkg_page, installed, gen_count, shim_ready, explicit_calls,
                   hook_successes, log_count, fault, env_opt_out, active, regVars,
                   geomVars, tableVars, streamVars, routeVars, pagesVars>>

\* _remove_hook: "with _HOOK_LOCK:" is entered.
RemoveHookAcquire(t) ==
    /\ frame[t].pc = "rh_wait"
    /\ HookLockFree(HOOK_LOCK)
    /\ HOOK_LOCK' = t
    /\ frame' = [frame EXCEPT ![t].pc = "rh_body"]
    /\ UNCHANGED <<HOOK_INSTALLED, PATCH_APPLIED, meta_path, sys_modules, wrapped,
                   pkg_page, installed, gen_count, shim_ready, explicit_calls,
                   hook_successes, log_count, fault, env_opt_out, active, regVars,
                   geomVars, tableVars, streamVars, routeVars, pagesVars>>

\* _remove_hook: _remove_hook_unlocked() under the lock, the release and the return.
RemoveHookBody(t) ==
    /\ frame[t].pc = "rh_body"
    /\ LET r == RemoveHookUnlocked(HOOK_INSTALLED, meta_path)
       IN /\ HOOK_INSTALLED' = r.flag
          /\ meta_path' = r.meta_path
    /\ HOOK_LOCK' = 0
    /\ frame' = [frame EXCEPT ![t] = IdleFrame]
    /\ UNCHANGED <<PATCH_APPLIED, sys_modules, wrapped, pkg_page, installed, gen_count,
                   shim_ready, explicit_calls, hook_successes, log_count, fault,
                   env_opt_out, active, regVars, geomVars, tableVars, streamVars,
                   routeVars, pagesVars>>

\* The module globals at import of _bolivar_patch, before pdfplumber is imported, in a
\* process started with the opt-out toggle set (e) or not.
PatchInitEnv(f, e) ==
    /\ HOOK_INSTALLED = FALSE
    /\ PATCH_APPLIED = FALSE
    /\ HOOK_LOCK = 0
    /\ meta_path = << >>
    /\ sys_modules = [m \in Mods |-> "absent"]
    /\ wrapped = [m \in Mods |-> FALSE]
    /\ pkg_page = FALSE
    /\ installed = [c \in Caps |-> Original]
    /\ gen_count = 0
    /\ frame = [t \in Threads |-> IdleFrame]
    /\ shim_ready = FALSE
    /\ explicit_calls = 0
    /\ hook_successes = 0
    /\ log_count = 0
    /\ fault = f
    /\ env_opt_out = e

\* ... in a process started without the toggle.
PatchInit(f) == PatchInitEnv(f, FALSE)

PatchNext ==
    \/ \E t \in Threads : PatchCall(t)
    \/ \E t \in Threads : InstallHookAcquire(t)
    \/ \E t \in Threads : InstallHookBody(t)
    \/ \E t \in Threads : PatchDone(t)
    \/ \E m \in Mods : LoadStart(m)
    \/ \E m \in Mods : BodyDone(m)
    \/ \E t \in Threads : HookAcquire(t)
    \/ \E t \in Threads : HookCheck(t)
    \/ \E t \in Threads : HookHandle(t)
    \/ \E t \in Threads : HookRelease(t)
    \/ \E t \in Threads : ApplyResolve(t)
    \/ \E t \in Threads : ApplyTables(t)
    \/ \E t \in Threads : ApplyTable(t)
    \/ \E t \in Threads : ApplyImportPdf(t)
    \/ \E t \in Threads : ApplyPagesCheck(t)
    \/ \E t \in Threads : ApplyPagesSet(t)
    \/ \E t \in Threads : ApplyCloseCheck(t)
    \/ \E t \in Threads : ApplyCloseSet(t)
    \/ \E t \in Threads : ApplyAenter(t)
    \/ \E t \in Threads : ApplyVerify(t)
    \/ \E t \in Threads : ApplyRepair(t)

(***************************************************************************)
(* Part 3: the key normalizer and the routing of extract_tables            *)
(***************************************************************************)
\* Configuration values. A value is a tagged pair: <<"s", n>> a scalar, <<"l", items>> a
\* list, <<"t", items>> a tuple, <<"d", items>> a dict whose items are <<key, value>>
\* pairs in insertion order, with distinct keys.
ScalarValues == {<<"s", n>> : n \in 1..MaxScalar}

SeqsOver(S) == UNION {[1..m -> S] : m \in 0..MaxElems}

DistinctKeys(items) ==
    \A j, k \in 1..Len(items) : items[j][1] = items[k][1] => j = k

DictItemsOver(S) == {q \in SeqsOver((1..MaxScalar) \X S) : DistinctKeys(q)}

\* Scalars, and lists, tuples and dicts of scalars.
InnerValues ==
    ScalarValues
        \cup {<<"l", q>> : q \in SeqsOver(ScalarValues)}
        \cup {<<"t", q>> : q \in SeqsOver(ScalarValues)}
        \cup {<<"d", q>> : q \in DictItemsOver(ScalarValues)}

\* Inner values, and a list, a tuple or a dict entry holding one inner value.
ConfigValues ==
    InnerValues
        \cup {<<"l", <<v>>>> : v \in InnerValues}
        \cup {<<"t", <<v>>>> : v \in InnerValues}
        \cup {<<"d", <<<<k, v>>>>>> : k \in 1..MaxScalar, v \in InnerValues}

\* table_settings=None
NoSettings == <<"s", None>>

\* Mutant of the normalizer: dict items in insertion order.
SortedItemsUnsorted(items) == items

\* sorted(...) of (key, value) pairs with distinct keys: ascending by key.
RECURSIVE SortedItems(_)
SortedItems(items) ==
    IF Len(items) = 0 THEN << >>
    ELSE LET m == CHOOSE j \in 1..Len(items) :
                      \A k \in 1..Len(items) : items[j][1] <= items[k][1]
             rest == SubSeq(items, 1, m - 1) \o SubSeq(items, m + 1, Len(items))
         IN <<items[m]>> \o SortedItems(rest)

\* _normalize_key(value): the result is a Python scalar or tuple, in the same tagging.
RECURSIVE NormalizeKey(_)

\* "(key, _normalize_key(val)) for key, val in value.items()"
RECURSIVE NormalizeItems(_)
NormalizeItems(items) ==
    IF Len(items) = 0 THEN << >>
    ELSE <<<<items[1][1], NormalizeKey(items[1][2])>>>> \o NormalizeItems(Tail(items))

\* "_normalize_key(v) for v in value"
RECURSIVE NormalizeElems(_)
NormalizeElems(elems) ==
    IF Len(elems) = 0 THEN << >>
    ELSE <<NormalizeKey(elems[1])>> \o NormalizeElems(Tail(elems))

\* tuple(...) of the sorted (key, value) pairs, each pair a tuple.
RECURSIVE TupleOfPairs(_)
TupleOfPairs(srt) ==
    IF Len(srt) = 0 THEN << >>
    ELSE <<<<"t", <<<<"s", srt[1][1]>>, srt[1][2]>>>>>> \o TupleOfPairs(Tail(srt))

NormalizeKey(value) ==
    IF value[1] = "d"
    THEN <<"t", TupleOfPairs(SortedItems(NormalizeItems(value[2])))>>
    ELSE IF value[1] \in {"l", "t"}
    THEN <<"t", NormalizeElems(value[2])>>
    ELSE value

\* _settings_key
SettingsKey(table_settings) == NormalizeKey(table_settings)

\* _TABLE_STREAM_CACHE_LIMIT
TABLE_STREAM_CACHE_LIMIT == 2

\* The Producer of a document: it yields the tables of pages 0..n-1 in order.
DocProducer(n) == Scan(n)

\* _BolivarTableStream(_stream_factory): the fields after __init__.
NewInstance ==
    [cache |-> EmptyMap, done |-> FALSE, max_index_seen |-> -1, stream |-> 0,
     cache_limit |-> ClampLimit(TABLE_STREAM_CACHE_LIMIT)]

\* The pull loop of get, run to its end.
RECURSIVE PullUntil(_, _, _)
PullUntil(st, p, i) ==
    IF i \in DOMAIN st.cache THEN st
    ELSE IF st.stream >= Len(p) THEN [st EXCEPT !.done = TRUE]
    ELSE LET k == st.stream + 1
             idx == p[k]
         IN PullUntil([st EXCEPT !.stream = k,
                                 !.max_index_seen = Max(idx, st.max_index_seen),
                                 !.cache = EvictCache(MapPut(st.cache, idx, Payload(k)),
                                                      st.cache_limit, idx)],
                      p, i)

\* _get_from_fresh_stream, from element k of a fresh run.
RECURSIVE FreshScan(_, _, _)
FreshScan(p, i, k) ==
    IF k > Len(p) THEN None
    ELSE IF p[k] = i THEN Payload(k)
    ELSE IF p[k] > i THEN None
    ELSE FreshScan(p, i, k + 1)

\* get(page_index) as one step (the lock makes it one): the instance afterwards, the
\* path taken and the result.
GetOn(st, p, i) ==
    IF IsHit(st.cache, i)
    THEN [st |-> st, path |-> "hit", result |-> st.cache[i]]
    ELSE IF NeedsReplay(i, st.max_index_seen, st.done)
    THEN [st |-> st, path |-> "replay", result |-> FreshScan(p, i, 1)]
    ELSE LET after == PullUntil(st, p, i)
         IN [st |-> after, path |-> "live", result |-> MapGet(after.cache, i)]

\* Mutant of the stream map lookup: the settings themselves are the key.
KeyOfSettingsRaw(table_settings) == table_settings

\* _get_table_stream: the settings part of the key.
KeyOfSettings(table_settings) == SettingsKey(table_settings)

\* Mutant of the is_original test: every page view is taken for an original page.
IsOriginalAlways(kind) == TRUE

\* Mutant of the geometry key: every page has a key of its own.
GeometriesKeyPerPage(geoms, pg) == pg

\* _build_geometries and tuple(geometries): the base geometries, with the entry of the
\* page replaced when the page's geometry differs; -1 stands for no replacement.
GeometriesKey(geoms, pg) == IF geoms[pg] = "own" THEN pg ELSE -1

\* _get_table_stream: the key of the stream map (laparams and page numbers are those
\* of the pdf, the same for every call).
StreamKey(table_settings, geoms, pg) ==
    <<KeyOfSettings(table_settings), GeometriesKey(geoms, pg)>>

\* The instance attributes of the pdf that the patch sets.
GEOM_BASE == "_bolivar_table_geom_base"

TABLE_STREAMS == "_bolivar_table_streams"

\* _get_base_geometries: the cached base list when the pdf holds one, else
\* _base_geometries(doc), which is then stored on the pdf.
GetBaseGeometries(attrs) == IF GEOM_BASE \in attrs THEN "cached" ELSE "computed"

\* getattr(page, "is_original", True)
IsOriginal(kind) == kind # "derived"

\* Page.extract_tables(table_settings) on page pg with settings[w].
ExtractTables(w, pg) ==
    /\ Len(routed) < MaxRouted
    /\ pg \in 0..(doc_pages - 1)
    /\ IF ~IsOriginal(page_geoms[pg])
       THEN \* not an original page: _extract_tables_from_page_objects, no stream
            /\ routed' = Append(routed, [which |-> w, page |-> pg, inst |-> 0,
                                         path |-> "direct", made |-> FALSE,
                                         key |-> NoSettings, result |-> None,
                                         base |-> "unused"])
            /\ UNCHANGED <<streams, insts, runs, pdf_attrs>>
       ELSE LET key == StreamKey(settings[w], page_geoms, pg)
                found == {e \in streams : e[1] = key}
                isNew == found = {}
                id == IF isNew THEN Len(insts) + 1 ELSE (CHOOSE e \in found : TRUE)[2]
                st == IF isNew THEN NewInstance ELSE insts[id]
                g == GetOn(st, DocProducer(doc_pages), pg)
            IN /\ streams' = IF isNew THEN streams \cup {<<key, id>>} ELSE streams
               /\ insts' = IF isNew THEN Append(insts, g.st)
                           ELSE [insts EXCEPT ![id] = g.st]
               /\ runs' = runs + (IF isNew THEN 1 ELSE 0)
                               + (IF g.path = "replay" THEN 1 ELSE 0)
               /\ routed' = Append(routed, [which |-> w, page |-> pg, inst |-> id,
                                            path |-> g.path, made |-> isNew,
                                            key |-> key[1], result |-> g.result,
                                            base |-> GetBaseGeometries(pdf_attrs)])
               /\ pdf_attrs' = pdf_attrs \cup {GEOM_BASE, TABLE_STREAMS}
    /\ UNCHANGED <<settings, doc_pages, page_geoms, active, regVars, geomVars, tableVars,
                   streamVars, patchVars, pagesVars>>

\* A pdf just opened: no stream made yet.
RouteInit(a, b, n, geoms) ==
    /\ settings = <<a, b>>
    /\ doc_pages = n
    /\ page_geoms = geoms
    /\ streams = {}
    /\ insts = << >>
    /\ runs = 0
    /\ routed = << >>
    /\ pdf_attrs = {}

\* No table extraction in this run.
RouteIdle == RouteInit(NoSettings, NoSettings, 1, [p \in {0} |-> "base"])

RouteNext == \E w \in {1, 2}, pg \in 0..(MaxPages - 1) : ExtractTables(w, pg)

\* The permutations of 1..n.
Perms(n) == {f \in [1..n -> 1..n] : \A j, k \in 1..n : f[j] = f[k] => j = k}

\* The values that differ from v only in the insertion order of dicts (when pd) and in
\* the order of the elements of lists and tuples (when pa), at any depth.
RECURSIVE Variants(_, _, _)
Variants(v, pd, pa) ==
    IF v[1] = "s" THEN {v}
    ELSE LET n == Len(v[2])
             isD == v[1] = "d"
             elt(k) == IF isD THEN v[2][k][2] ELSE v[2][k]
             all == UNION {Variants(elt(k), pd, pa) : k \in 1..n}
             fs == IF (isD /\ pd) \/ (~isD /\ pa) THEN Perms(n)
                   ELSE {[k \in 1..n |-> k]}
             cs == {c \in [1..n -> all] : \A k \in 1..n : c[k] \in Variants(elt(k), pd, pa)}
         IN {<<v[1], [k \in 1..n |-> IF isD THEN <<v[2][f[k]][1], c[f[k]]>>
                                     ELSE c[f[k]]] \o << >>>> : f \in fs, c \in cs}

(***************************************************************************)
(* Part 4: BolivarLazyPages, the lazy page collection                      *)
(***************************************************************************)
\* The elements of a set of integers in ascending order.
RECURSIVE Ascending(_)
Ascending(S) ==
    IF S = {} THEN << >>
    ELSE LET m == CHOOSE x \in S : \A y \in S : x <= y
         IN <<m>> \o Ascending(S \ {m})

\* pdf.pages_to_parse: None, or a collection of 1-based page numbers.
AllPages == <<"None">>

OnlyPages(S) == <<"set", S>>

\* Mutant of the filter of __init__: the page numbers of pages_to_parse are taken for
\* canonical indices.
PageNumbersZeroBased(pc, pages_to_parse) ==
    Ascending({idx \in 0..(pc - 1) :
                   pages_to_parse = AllPages \/ idx \in pages_to_parse[2]})

\* __init__: self._page_numbers, from page_count and pdf.pages_to_parse.
PageNumbers(pc, pages_to_parse) ==
    Ascending({idx \in 0..(pc - 1) :
                   pages_to_parse = AllPages \/ (idx + 1) \in pages_to_parse[2]})

\* What an operation on the collection reports: the pages it returned or yielded, the
\* canonical indices it called get_page for (arg is its argument; for a close, the
\* number of wrappers it released).
NoOp == [op |-> "none", arg |-> 0, err |-> "none", pages |-> << >>, called |-> << >>]

\* Mutants.
CachedPageNever(c, page_index) == None

AsyncMemoStores(c, page_index, page) == MapPut(c, page_index, page)

ClearedCacheKeeps(c) == c

\* __getitem__ / __aiter__: "cached = self._page_cache.get(page_index)"
CachedPage(c, page_index) == MapGet(c, page_index)

\* __aiter__: the memo map after a page was built for the traversal (it is not stored)
AsyncMemo(c, page_index, page) == c

\* close: self._page_cache.clear()
ClearedCache(c) == EmptyMap

\* The number of get_page calls that raised: every other one made a wrapper.
Failures == get_page_calls - wrappers

\* The canonical indices get_page may raise for in the next operation: for none, or
\* (FailSets) for one of them, or (FailAny) for whichever is asked.
FailSets == {{}} \cup (IF Failures < MaxFailures
                       THEN {{idx} : idx \in 0..(page_count - 1)} ELSE {})

FailAny == {{}} \cup (IF Failures < MaxFailures THEN {0..(page_count - 1)} ELSE {})

\* __getitem__ with an int index on the collection in state st = [cache, wrappers,
\* calls], where get_page raises for the indices in F: the state afterwards, the error
\* raised if any, the page, the get_page call.
LazyGet(st, idx, F) ==
    LET n == Len(page_numbers)
        i == IF idx < 0 THEN idx + n ELSE idx
    IN IF i < 0 \/ i >= n
       THEN [st |-> st, err |-> "IndexError", pages |-> << >>, called |-> << >>]
       ELSE LET page_index == page_numbers[i + 1]
                cached == CachedPage(st.cache, page_index)
                page == st.wrappers + 1
                counted == st.calls + 1
            IN IF cached # None
               THEN [st |-> st, err |-> "none", pages |-> <<cached>>, called |-> << >>]
               ELSE IF page_index \in F
               THEN [st |-> [st EXCEPT !.calls = counted], err |-> "PdfminerException",
                     pages |-> << >>, called |-> <<page_index>>]
               ELSE [st |-> [cache |-> MapPut(st.cache, page_index, page),
                             wrappers |-> page,
                             calls |-> counted],
                     err |-> "none", pages |-> <<page>>, called |-> <<page_index>>]

\* [self[i] for i in idxs]: the list is lost when one element raises.
RECURSIVE LazyGetAll(_, _, _)
LazyGetAll(st, idxs, F) ==
    IF Len(idxs) = 0
    THEN [st |-> st, err |-> "none", pages |-> << >>, called |-> << >>]
    ELSE LET g == LazyGet(st, Head(idxs), F)
         IN IF g.err # "none" THEN g
            ELSE LET r == LazyGetAll(g.st, Tail(idxs), F)
                 IN [st |-> r.st, err |-> r.err,
                     pages |-> IF r.err = "none" THEN g.pages \o r.pages ELSE << >>,
                     called |-> g.called \o r.called]

\* range(*slice(lo, hi).indices(n))
SliceRange(lo, hi, n) ==
    LET clamp(x) == IF x < 0 THEN Max(x + n, 0) ELSE (IF x > n THEN n ELSE x)
        start == clamp(lo)
        stop == clamp(hi)
    IN [k \in 1..Max(stop - start, 0) |-> start + k - 1]

\* No generator of the kind is alive.
IterOff == [on |-> FALSE, pos |-> 0, dir |-> "forward"]

AsyncOff == [on |-> FALSE, pos |-> 0]

LazyState == [cache |-> page_cache, wrappers |-> wrappers, calls |-> get_page_calls]

\* pages[idx]
GetItem(idx, F) ==
    /\ LET g == LazyGet(LazyState, idx, F)
       IN /\ g.st.wrappers <= MaxWrappers
          /\ page_cache' = g.st.cache
          /\ wrappers' = g.st.wrappers
          /\ get_page_calls' = g.st.calls
          /\ lp_last' = [op |-> "get", arg |-> idx, err |-> g.err, pages |-> g.pages,
                         called |-> g.called]
    /\ UNCHANGED <<page_count, pdf_pages_to_parse, page_numbers, released, siter, aiter,
                   active, regVars, geomVars, tableVars, streamVars, patchVars, routeVars>>

\* pages[lo:hi]
GetSlice(lo, hi, F) ==
    /\ LET g == LazyGetAll(LazyState, SliceRange(lo, hi, Len(page_numbers)), F)
       IN /\ g.st.wrappers <= MaxWrappers
          /\ page_cache' = g.st.cache
          /\ wrappers' = g.st.wrappers
          /\ get_page_calls' = g.st.calls
          /\ lp_last' = [op |-> "slice", arg |-> 0, err |-> g.err,
                         pages |-> g.pages, called |-> g.called]
    /\ UNCHANGED <<page_count, pdf_pages_to_parse, page_numbers, released, siter, aiter,
                   active, regVars, geomVars, tableVars, streamVars, patchVars, routeVars>>

\* iter(pages) or reversed(pages): a generator is made.
IterStart(dir) ==
    /\ ~siter.on
    /\ siter' = [on |-> TRUE, pos |-> 0, dir |-> dir]
    /\ lp_last' = [NoOp EXCEPT !.op = "iter_start"]
    /\ UNCHANGED <<page_count, pdf_pages_to_parse, page_numbers, page_cache, wrappers,
                   get_page_calls, released, aiter, active, regVars, geomVars, tableVars,
                   streamVars, patchVars, routeVars>>

\* The generator is resumed: "yield self[i]", or its end after the last index, or the
\* exception of self[i].
IterStep(F) ==
    /\ siter.on
    /\ LET n == Len(page_numbers)
       IN IF siter.pos >= n
          THEN /\ siter' = IterOff
               /\ lp_last' = [NoOp EXCEPT !.op = "iter_end"]
               /\ UNCHANGED <<page_cache, wrappers, get_page_calls>>
          ELSE LET i == IF siter.dir = "forward" THEN siter.pos ELSE n - 1 - siter.pos
                   g == LazyGet(LazyState, i, F)
               IN /\ g.st.wrappers <= MaxWrappers
                  /\ siter' = IF g.err = "none" THEN [siter EXCEPT !.pos = @ + 1]
                              ELSE IterOff
                  /\ page_cache' = g.st.cache
                  /\ wrappers' = g.st.wrappers
                  /\ get_page_calls' = g.st.calls
                  /\ lp_last' = [op |-> "iter_step", arg |-> i, err |-> g.err,
                                 pages |-> g.pages, called |-> g.called]
    /\ UNCHANGED <<page_count, pdf_pages_to_parse, page_numbers, released, aiter,
                   active, regVars, geomVars, tableVars, streamVars, patchVars, routeVars>>

\* pages.__aiter__(): the asynchronous generator is made.
AsyncStart ==
    /\ ~aiter.on
    /\ aiter' = [on |-> TRUE, pos |-> 0]
    /\ lp_last' = [NoOp EXCEPT !.op = "astart"]
    /\ UNCHANGED <<page_count, pdf_pages_to_parse, page_numbers, page_cache, wrappers,
                   get_page_calls, released, siter, active, regVars, geomVars, tableVars,
                   streamVars, patchVars, routeVars>>

\* The asynchronous generator is resumed: one page is yielded, or it ends after the
\* last index, or get_page raises.
AsyncStep(F) ==
    /\ aiter.on
    /\ IF aiter.pos >= Len(page_numbers) \/ wrappers < MaxWrappers THEN TRUE
       ELSE CachedPage(page_cache, page_numbers[aiter.pos + 1]) # None
    /\ IF aiter.pos >= Len(page_numbers)
       THEN /\ aiter' = AsyncOff
            /\ lp_last' = [NoOp EXCEPT !.op = "aend"]
            /\ UNCHANGED <<page_cache, wrappers, get_page_calls>>
       ELSE LET page_index == page_numbers[aiter.pos + 1]
                cached == CachedPage(page_cache, page_index)
                page == wrappers + 1
                counted == get_page_calls + 1
            IN IF cached # None
               THEN /\ aiter' = [aiter EXCEPT !.pos = @ + 1]
                    /\ lp_last' = [op |-> "astep", arg |-> aiter.pos, err |-> "none",
                                   pages |-> <<cached>>, called |-> << >>]
                    /\ UNCHANGED <<page_cache, wrappers, get_page_calls>>
               ELSE IF page_index \in F
               THEN /\ aiter' = AsyncOff
                    /\ lp_last' = [op |-> "astep", arg |-> aiter.pos,
                                   err |-> "PdfminerException", pages |-> << >>,
                                   called |-> <<page_index>>]
                    /\ get_page_calls' = counted
                    /\ UNCHANGED <<page_cache, wrappers>>
               ELSE /\ aiter' = [aiter EXCEPT !.pos = @ + 1]
                    /\ lp_last' = [op |-> "astep", arg |-> aiter.pos, err |-> "none",
                                   pages |-> <<page>>, called |-> <<page_index>>]
                    /\ wrappers' = page
                    /\ get_page_calls' = counted
                    /\ page_cache' = AsyncMemo(page_cache, page_index, page)
    /\ UNCHANGED <<page_count, pdf_pages_to_parse, page_numbers, released, siter,
                   active, regVars, geomVars, tableVars, streamVars, patchVars, routeVars>>

\* The consumer leaves the "async for" early: the generator is closed.
AsyncStop ==
    /\ aiter.on
    /\ aiter.pos < Len(page_numbers)
    /\ aiter' = AsyncOff
    /\ lp_last' = [NoOp EXCEPT !.op = "astop", !.arg = aiter.pos]
    /\ UNCHANGED <<page_count, pdf_pages_to_parse, page_numbers, page_cache, wrappers,
                   get_page_calls, released, siter, active, regVars, geomVars, tableVars,
                   streamVars, patchVars, routeVars>>

\* The wrappers a memo map holds.
Wrappers(c) == {c[k] : k \in DOMAIN c}

\* The close() of every memoized wrapper is called: rel counts the calls per wrapper.
ReleaseAll(rel, c) ==
    LET ids == Wrappers(c)
    IN [w \in (DOMAIN rel) \cup ids |->
            (IF w \in DOMAIN rel THEN rel[w] ELSE 0) + (IF w \in ids THEN 1 ELSE 0)]

\* pages.close()
Close ==
    /\ released' = ReleaseAll(released, page_cache)
    /\ page_cache' = ClearedCache(page_cache)
    /\ lp_last' = [NoOp EXCEPT !.op = "close",
                                !.arg = Cardinality(Wrappers(page_cache))]
    /\ UNCHANGED <<page_count, pdf_pages_to_parse, page_numbers, wrappers,
                   get_page_calls, siter, aiter, active, regVars, geomVars, tableVars,
                   streamVars, patchVars, routeVars>>

\* Mutant of flush_cache: the map of stream caches is left on the pdf.
FlushCacheKeepsStreams(attrs) == attrs \ {GEOM_BASE}

\* Container.flush_cache(): the document handle owns the per-document caches and
\* tears them down when the document is closed.
FlushCache(attrs) == attrs \ {GEOM_BASE, TABLE_STREAMS}

\* The patched PDF.close() (_bolivar_close): the collection has a close, so that is
\* called, and the collection is not iterated; then flush_cache and the stream's close.
PdfClose ==
    /\ released' = ReleaseAll(released, page_cache)
    /\ page_cache' = ClearedCache(page_cache)
    /\ lp_last' = [NoOp EXCEPT !.op = "pdf_close",
                                !.arg = Cardinality(Wrappers(page_cache))]
    /\ pdf_attrs' = FlushCache(pdf_attrs)
    /\ streams' = IF TABLE_STREAMS \in pdf_attrs' THEN streams ELSE {}
    /\ UNCHANGED <<page_count, pdf_pages_to_parse, page_numbers, wrappers,
                   get_page_calls, siter, aiter, settings, doc_pages, page_geoms, insts,
                   runs, routed, active, regVars, geomVars, tableVars, streamVars, patchVars>>

\* BolivarLazyPages(pdf)
PagesInit(pc, pages_to_parse) ==
    /\ page_count = pc
    /\ pdf_pages_to_parse = pages_to_parse
    /\ page_numbers = PageNumbers(pc, pages_to_parse)
    /\ page_cache = EmptyMap
    /\ wrappers = 0
    /\ get_page_calls = 0
    /\ released = EmptyMap
    /\ siter = IterOff
    /\ aiter = AsyncOff
    /\ lp_last = NoOp

\* The collection of a pdf before BolivarLazyPages(pdf) is called.
Unbuilt(pc, pages_to_parse) ==
    /\ page_count = pc
    /\ pdf_pages_to_parse = pages_to_parse
    /\ page_numbers = << >>
    /\ page_cache = EmptyMap
    /\ wrappers = 0
    /\ get_page_calls = 0
    /\ released = EmptyMap
    /\ siter = IterOff
    /\ aiter = AsyncOff
    /\ lp_last = [NoOp EXCEPT !.op = "unbuilt"]

\* The collection exists: __init__ returned.
Built == lp_last.op \in {"init", "len", "contains"} /\ lp_last.err = "none"

\* BolivarLazyPages.__init__(pdf), the pdf with or without a document.
Construct(has_doc) ==
    /\ lp_last.op = "unbuilt"
    /\ IF ~has_doc
       THEN /\ lp_last' = [NoOp EXCEPT !.op = "init", !.err = "RuntimeError"]
            /\ UNCHANGED page_numbers
       ELSE IF page_count <= 0
       THEN /\ lp_last' = [NoOp EXCEPT !.op = "init", !.err = "PdfminerException"]
            /\ UNCHANGED page_numbers
       ELSE /\ page_numbers' = PageNumbers(page_count, pdf_pages_to_parse)
            /\ lp_last' = [NoOp EXCEPT !.op = "init"]
    /\ UNCHANGED <<page_count, pdf_pages_to_parse, page_cache, wrappers,
                   get_page_calls, released, siter, aiter, active, regVars, geomVars,
                   tableVars, streamVars, patchVars, routeVars>>

\* BolivarLazyPages.__len__()
LenCall ==
    /\ Built
    /\ lp_last' = [NoOp EXCEPT !.op = "len", !.arg = Len(page_numbers)]
    /\ UNCHANGED <<page_count, pdf_pages_to_parse, page_numbers, page_cache, wrappers,
                   get_page_calls, released, siter, aiter, active, regVars, geomVars,
                   tableVars, streamVars, patchVars, routeVars>>

\* The objects asked for: one without a page_number attribute, and pages by number.
NoPageNumber == <<"other">>

Items == {NoPageNumber} \cup {<<"page", n>> : n \in -1..(MaxDocPages + 1)}

\* self._page_number_set
PageNumberSet(pns) == {pns[k] : k \in 1..Len(pns)}

\* __contains__(item)
Contains(pns, item) ==
    IF item = NoPageNumber THEN FALSE ELSE (item[2] - 1) \in PageNumberSet(pns)

ContainsCall(item) ==
    /\ Built
    /\ lp_last' = [op |-> "contains", arg |-> 0, err |-> "none", pages |-> << >>,
                   called |-> << >>, item |-> item,
                   found |-> Contains(page_numbers, item)]
    /\ UNCHANGED <<page_count, pdf_pages_to_parse, page_numbers, page_cache, wrappers,
                   get_page_calls, released, siter, aiter, active, regVars, geomVars,
                   tableVars, streamVars, patchVars, routeVars>>

\* A consumer that builds the collection and asks for its length and its members.
LazyInitNext ==
    \/ \E has_doc \in BOOLEAN : Construct(has_doc)
    \/ LenCall
    \/ \E item \in Items : ContainsCall(item)

\* No page collection in use in this run.
PagesIdle == PagesInit(1, AllPages)

\* A consumer that uses the collection synchronously.
PagesNext ==
    \/ \E idx \in -(MaxDocPages + 1)..MaxDocPages, F \in FailAny : GetItem(idx, F)
    \/ \E lo \in -1..1, hi \in {-1} \cup 1..MaxDocPages, F \in FailSets :
           GetSlice(lo, hi, F)
    \/ \E dir \in {"forward", "reverse"} : IterStart(dir)
    \/ \E F \in FailAny : IterStep(F)
    \/ Close
    \/ PdfClose

\* A consumer that traverses the collection asynchronously, and may index it and
\* close it in between.
AsyncNext ==
    \/ \E idx \in -(MaxDocPages + 1)..MaxDocPages, F \in FailAny : GetItem(idx, F)
    \/ AsyncStart
    \/ \E F \in FailAny : AsyncStep(F)
    \/ AsyncStop
    \/ Close
    \/ PdfClose

(***************************************************************************)
(* Part 5: page geometries                                                 *)
(***************************************************************************)
\* The media boxes a document may report: <<x0, y0, x1, y1>>, the y's any of the
\* coordinates 0..MaxCoord.
BoxSet == {<<0, y0, 1, y1>> : y0 \in 0..MaxCoord, y1 \in 0..MaxCoord}

BoxLists == UNION {[1..m -> BoxSet] : m \in 0..MaxBoxes}

\* An attribute that is None, or holds a list.
NoList == <<"None">>

SomeList(l) == <<"list", l>>

\* Mutant of the copy in _build_geometries: the result is the base list itself, so the
\* substitution shows in the list the pdf caches.
BaseAfterBuildAliased(base, result) == result

\* box[3] - box[1]
Height(box) == box[4] - box[2]

\* "running = 0.0"
RunningStart(bs) == 0

\* The loop of _base_geometries: the doctops of the boxes bs, from the running sum.
RECURSIVE RunningTops(_, _)
RunningTops(bs, running) ==
    IF bs = << >> THEN << >>
    ELSE <<running>> \o RunningTops(Tail(bs), running + Height(Head(bs)))

\* _base_geometries(doc): (box, mediabox, doctop, is_cropped) per page.
BaseGeometries(bs) ==
    LET tops == RunningTops(bs, RunningStart(bs))
    IN [k \in 1..Len(bs) |-> <<bs[k], bs[k], tops[k], FALSE>>] \o << >>

\* _build_geometries(doc, page_index, page, base) with current = _page_geom(page).
BuildGeometries(base, page_index, current) ==
    IF 0 <= page_index /\ page_index < Len(base)
    THEN IF base[page_index + 1] # current
         THEN [base EXCEPT ![page_index + 1] = current]
         ELSE base
    ELSE base

\* "geoms = list(base)": the substitution is made in a copy, the base list is as before.
BaseAfterBuild(base, result) == base

\* The geometries a page view at page_index may report: the canonical one, a cropped
\* one, and one with another doctop.
Observed(base, page_index) ==
    (IF 0 <= page_index /\ page_index < Len(base) THEN {base[page_index + 1]} ELSE {})
        \cup {<<<<0, 0, 1, 1>>, <<0, 0, 1, 1>>, 0, TRUE>>,
              <<<<0, 0, 1, 1>>, <<0, 0, 1, 1>>, 1, FALSE>>}

NoBuild == [op |-> "none", page_index |-> 0, current |-> << >>, result |-> << >>]

\* _get_base_geometries(pdf, doc)
GetBaseGeometriesCall ==
    /\ geom.base = NoList
    /\ geom' = [geom EXCEPT !.base = SomeList(BaseGeometries(geom.boxes))]
    /\ UNCHANGED <<active, regVars, tableVars, streamVars, patchVars, routeVars, pagesVars>>

\* extract_tables_from_page: base_geoms = _get_base_geometries(pdf, doc), then
\* geoms = _build_geometries(doc, page_index, page, base=base_geoms).
BuildGeometriesCall(page_index, cur) ==
    LET base == IF geom.base = NoList THEN BaseGeometries(geom.boxes) ELSE geom.base[2]
        result == BuildGeometries(base, page_index, cur)
    IN /\ cur \in Observed(base, page_index)
       /\ geom' = [geom EXCEPT !.base = SomeList(BaseAfterBuild(base, result)),
                               !.last = [op |-> "build", page_index |-> page_index,
                                         current |-> cur, result |-> result]]
       /\ UNCHANGED <<active, regVars, tableVars, streamVars, patchVars, routeVars, pagesVars>>

\* The loop of _ensure_doctops over self._page_numbers.
RECURSIVE LazyDoctops(_, _, _)
LazyDoctops(pns, bs, running) ==
    IF pns = << >> THEN << >>
    ELSE <<running>> \o LazyDoctops(Tail(pns), bs, running + Height(bs[Head(pns) + 1]))

\* BolivarLazyPages._ensure_doctops(): an index past the boxes is an IndexError,
\* raised as PdfminerException with _doctops left None.
EnsureDoctops ==
    /\ geom.doctops = NoList
    /\ IF \E k \in 1..Len(page_numbers) : page_numbers[k] >= Len(geom.boxes)
       THEN /\ lp_last' = [NoOp EXCEPT !.op = "doctops", !.err = "PdfminerException"]
            /\ UNCHANGED geom
       ELSE /\ geom' = [geom EXCEPT !.doctops =
                            SomeList(LazyDoctops(page_numbers, geom.boxes,
                                                 RunningStart(geom.boxes)))]
            /\ lp_last' = [NoOp EXCEPT !.op = "doctops"]
    /\ UNCHANGED <<page_count, pdf_pages_to_parse, page_numbers, page_cache, wrappers,
                   get_page_calls, released, siter, aiter, active, regVars, tableVars,
                   streamVars, patchVars, routeVars>>

\* A pdf whose document reports the boxes bs: nothing computed yet.
GeomInit(bs) ==
    geom = [boxes |-> bs, base |-> NoList, last |-> NoBuild, doctops |-> NoList]

\* No geometry in use in this run.
GeomIdle == GeomInit(<< >>)

GeomNext ==
    \/ GetBaseGeometriesCall
    \/ \E page_index \in -1..MaxBoxes :
       \E cur \in Observed(BaseGeometries(geom.boxes), page_index) :
           BuildGeometriesCall(page_index, cur)

DoctopsNext ==
    \/ GetBaseGeometriesCall
    \/ EnsureDoctops

(***************************************************************************)
(* Part 6: extract_table                                                   *)
(***************************************************************************)
\* A table is a sequence of rows, a row a sequence of cells: here a row is empty or
\* has one cell, and the cells of the k-th table of a result hold k.
RowsOf(k) == {<< >>, <<k>>}

TablesOf(k) == UNION {[1..m -> RowsOf(k)] : m \in 0..MaxRows}

\* The results whose tables k..n are any tables.
RECURSIVE TableListsFrom(_, _)
TableListsFrom(k, n) ==
    IF k > n THEN {<< >>}
    ELSE {<<t>> \o rest : t \in TablesOf(k), rest \in TableListsFrom(k + 1, n)}

TableLists == UNION {TableListsFrom(1, n) : n \in 0..MaxTables}

\* Mutant of max: among equal keys the last one wins.
BetterOrEqual(a, b) == a >= b

\* _table_cell_count: sum(len(row) for row in table)
RECURSIVE TableCellCount(_)
TableCellCount(table) ==
    IF table = << >> THEN 0 ELSE Len(Head(table)) + TableCellCount(Tail(table))

\* max keeps the element it has unless the next one has a greater key.
Better(a, b) == a > b

\* max(tables, key=_table_cell_count), from the best so far.
RECURSIVE MaxByCellCount(_, _)
MaxByCellCount(ts, best) ==
    IF ts = << >> THEN best
    ELSE IF Better(TableCellCount(Head(ts)), TableCellCount(best))
    THEN MaxByCellCount(Tail(ts), Head(ts))
    ELSE MaxByCellCount(Tail(ts), best)

NoTable == <<"None">>

Uncalled == <<"uncalled">>

\* _extract_table(self, table_settings)
ExtractTable ==
    LET ts == table_call.tables
    IN /\ table_call' = [table_call EXCEPT !.picked =
              IF ts = << >> THEN NoTable
              ELSE <<"table", MaxByCellCount(Tail(ts), Head(ts))>>]
       /\ UNCHANGED <<active, regVars, streamVars, patchVars, routeVars, pagesVars, geomVars>>

\* A page whose extract_tables returns ts.
TableInit(ts) == table_call = [tables |-> ts, picked |-> Uncalled]

\* No extract_table in this run.
TableIdle == TableInit(<< >>)

TableNext == ExtractTable

(***************************************************************************)
(* Part 7: _get_table_stream called by several threads on one pdf          *)
(***************************************************************************)
\* The cache keys the callers use, and the pages of the document they ask for.
Keys == {1, 2}

IdleReg == [pc |-> "idle", key |-> 0, page |-> 0, local |-> 0, wrapped |-> 0,
            result |-> 0]

\* extract_tables_from_page reaches _get_table_stream with the key of its arguments.
RegCall(t, key, pg) ==
    /\ t \in active
    /\ stream_reg.frames[t].pc = "idle"
    /\ stream_reg.calls < MaxRouted
    /\ stream_reg' = [stream_reg EXCEPT
           !.calls = @ + 1,
           !.frames[t] = [IdleReg EXCEPT !.pc = "getattr", !.key = key, !.page = pg]]
    /\ UNCHANGED <<active, streamVars, patchVars, routeVars, pagesVars, geomVars,
                   tableVars>>

\* streams = getattr(pdf, "_bolivar_table_streams", None)
RegGetattr(t) ==
    /\ stream_reg.frames[t].pc = "getattr"
    /\ stream_reg' = [stream_reg EXCEPT
           !.frames[t].local = stream_reg.attr,
           !.frames[t].pc = IF stream_reg.attr = 0 THEN "setattr" ELSE "lookup"]
    /\ UNCHANGED <<active, streamVars, patchVars, routeVars, pagesVars, geomVars,
                   tableVars>>

\* streams = {}; _set_attr(pdf, "_bolivar_table_streams", streams)
RegSetattr(t) ==
    /\ stream_reg.frames[t].pc = "setattr"
    /\ LET id == Len(stream_reg.maps) + 1
       IN stream_reg' = [stream_reg EXCEPT
              !.maps = Append(@, EmptyMap),
              !.attr = id,
              !.frames[t].local = id,
              !.frames[t].pc = "lookup"]
    /\ UNCHANGED <<active, streamVars, patchVars, routeVars, pagesVars, geomVars,
                   tableVars>>

\* if streams is not None and key in streams: return streams[key]
RegLookup(t) ==
    /\ stream_reg.frames[t].pc = "lookup"
    /\ LET f == stream_reg.frames[t]
           m == stream_reg.maps[f.local]
       IN stream_reg' = IF f.key \in DOMAIN m
                        THEN [stream_reg EXCEPT !.frames[t].result = m[f.key],
                                                !.frames[t].pc = "get"]
                        ELSE [stream_reg EXCEPT !.frames[t].pc = "construct"]
    /\ UNCHANGED <<active, streamVars, patchVars, routeVars, pagesVars, geomVars,
                   tableVars>>

\* wrapped = _BolivarTableStream(_stream_factory)
RegConstruct(t) ==
    /\ stream_reg.frames[t].pc = "construct"
    /\ stream_reg' = [stream_reg EXCEPT
           !.insts = Append(@, [key |-> stream_reg.frames[t].key, st |-> NewInstance]),
           !.frames[t].wrapped = Len(stream_reg.insts) + 1,
           !.frames[t].pc = "store"]
    /\ UNCHANGED <<active, streamVars, patchVars, routeVars, pagesVars, geomVars,
                   tableVars>>

\* streams[key] = wrapped; return wrapped
RegStore(t) ==
    /\ stream_reg.frames[t].pc = "store"
    /\ LET f == stream_reg.frames[t]
       IN stream_reg' = [stream_reg EXCEPT
              !.maps[f.local] = MapPut(@, f.key, f.wrapped),
              !.frames[t].result = f.wrapped,
              !.frames[t].pc = "get"]
    /\ UNCHANGED <<active, streamVars, patchVars, routeVars, pagesVars, geomVars,
                   tableVars>>

\* extract_tables_from_page: tables = stream.get(page_index), on the instance returned
\* (the instance's lock makes the call one step).
RegGet(t) ==
    /\ stream_reg.frames[t].pc = "get"
    /\ LET f == stream_reg.frames[t]
           g == GetOn(stream_reg.insts[f.result].st, DocProducer(MaxDocPages), f.page)
       IN stream_reg' = [stream_reg EXCEPT
              !.insts[f.result].st = g.st,
              !.frames[t].pc = "returned"]
    /\ UNCHANGED <<active, streamVars, patchVars, routeVars, pagesVars, geomVars,
                   tableVars>>

\* extract_tables returns; the thread may call again.
RegDone(t) ==
    /\ stream_reg.frames[t].pc = "returned"
    /\ stream_reg' = [stream_reg EXCEPT !.frames[t] = IdleReg]
    /\ UNCHANGED <<active, streamVars, patchVars, routeVars, pagesVars, geomVars,
                   tableVars>>

\* A pdf just opened: it has no _bolivar_table_streams attribute.
RegInit ==
    stream_reg = [attr |-> 0, maps |-> << >>, insts |-> << >>,
                  frames |-> [t \in Threads |-> IdleReg], calls |-> 0]

\* No call of _get_table_stream from several threads in this run.
RegIdle == RegInit

RegNext ==
    \/ \E t \in Threads, key \in Keys, pg \in 0..(MaxDocPages - 1) : RegCall(t, key, pg)
    \/ \E t \in Threads : RegGetattr(t)
    \/ \E t \in Threads : RegSetattr(t)
    \/ \E t \in Threads : RegLookup(t)
    \/ \E t \in Threads : RegConstruct(t)
    \/ \E t \in Threads : RegStore(t)
    \/ \E t \in Threads : RegGet(t)
    \/ \E t \in Threads : RegDone(t)

(***************************************************************************)
(* Specifications                                                          *)
(***************************************************************************)
\* One caller, any producer with non-decreasing indices, any cache limit.
Init ==
    /\ active = {1}
    /\ RegIdle
    /\ GeomIdle
    /\ TableIdle
    /\ \E p \in ArbitraryProducers \cup ScanProducers, a \in -1..MaxW :
           StreamInit(p, a)
    /\ PatchInit("none")
    /\ PagesIdle
    /\ RouteIdle

Next == StreamNext

Spec == Init /\ [][Next]_vars

\* Two callers on one instance over a scanning producer.
InitConc ==
    /\ active = Threads
    /\ RegIdle
    /\ GeomIdle
    /\ TableIdle
    /\ \E n \in 0..MaxLen, a \in 1..MaxW : StreamInit(Scan(n), a)
    /\ PatchInit("none")
    /\ PagesIdle
    /\ RouteIdle

SpecConc == InitConc /\ [][Next]_vars

\* A thread that is inside get keeps running until get returns.
GetProgress(t) ==
    GetAcquire(t) \/ GetCheck(t) \/ ReplayStep(t) \/ PullStep(t) \/ GetReturn(t)

\* One caller, with every call of get running on.
SpecLive == Init /\ [][Next]_vars /\ \A t \in Threads : WF_vars(GetProgress(t))

\* The registry driven by one thread: it imports pdfplumber and calls
\* patch_pdfplumber(), in any environment.
InitPatch ==
    /\ active = {Importer}
    /\ RegIdle
    /\ GeomIdle
    /\ TableIdle
    /\ StreamInit(Scan(0), MaxW)
    /\ \E f \in Faults : PatchInit(f)
    /\ PagesIdle
    /\ RouteIdle

SpecPatch == InitPatch /\ [][PatchNext]_vars

\* The registry with a second thread calling patch_pdfplumber() at any time.
InitPatchConc ==
    /\ active = Threads
    /\ RegIdle
    /\ GeomIdle
    /\ TableIdle
    /\ StreamInit(Scan(0), MaxW)
    /\ \E f \in Faults : PatchInit(f)
    /\ PagesIdle
    /\ RouteIdle

SpecPatchConc == InitPatchConc /\ [][PatchNext]_vars

\* The registry with two threads, where _remove_hook() is called as well.
LockNext ==
    \/ PatchNext
    \/ \E t \in Threads : RemoveHookCall(t)
    \/ \E t \in Threads : RemoveHookAcquire(t)
    \/ \E t \in Threads : RemoveHookBody(t)

SpecPatchLock == InitPatchConc /\ [][LockNext]_vars

\* A thread inside _install_hook, exec_module or _apply_patch keeps running.
PatchProgress(t) ==
    \/ InstallHookAcquire(t) \/ InstallHookBody(t)
    \/ HookAcquire(t) \/ HookCheck(t) \/ HookHandle(t) \/ HookRelease(t)
    \/ ApplyResolve(t) \/ ApplyTables(t) \/ ApplyTable(t) \/ ApplyImportPdf(t)
    \/ ApplyPagesCheck(t) \/ ApplyPagesSet(t) \/ ApplyCloseCheck(t)
    \/ ApplyCloseSet(t) \/ ApplyAenter(t) \/ ApplyVerify(t) \/ ApplyRepair(t)

\* The registry with two threads, every call into it running on.
SpecPatchLive ==
    InitPatchConc /\ [][PatchNext]_vars /\ \A t \in Threads : WF_vars(PatchProgress(t))

\* The registry in a process started with or without BOLIVAR_PDFPLUMBER_PATCH=0.
InitPatchEnv ==
    /\ active = {Importer}
    /\ RegIdle
    /\ GeomIdle
    /\ TableIdle
    /\ StreamInit(Scan(0), MaxW)
    /\ \E f \in Faults, e \in BOOLEAN : PatchInitEnv(f, e)
    /\ PagesIdle
    /\ RouteIdle

SpecPatchEnv == InitPatchEnv /\ [][PatchNext]_vars

\* One caller over a Producer whose live run may raise at any pull.
InitFail ==
    /\ active = {1}
    /\ RegIdle
    /\ GeomIdle
    /\ TableIdle
    /\ \E p \in ArbitraryProducers, a \in 0..MaxW : StreamInit(p, a)
    /\ PatchInit("none")
    /\ PagesIdle
    /\ RouteIdle

SpecFail == InitFail /\ [][StreamFailNext]_vars

\* extract_tables on one page with two settings values equal up to the insertion order
\* of their mappings.
InitKeyMap ==
    /\ active = {1}
    /\ RegIdle
    /\ GeomIdle
    /\ TableIdle
    /\ StreamInit(Scan(0), MaxW)
    /\ PatchInit("none")
    /\ PagesIdle
    /\ \E a \in ConfigValues : \E b \in Variants(a, TRUE, FALSE) :
           RouteInit(a, b, 1, [p \in {0} |-> "base"])

SpecKeyMap == InitKeyMap /\ [][RouteNext]_vars

\* ... equal up to the order of the elements of their arrays.
InitKeyArr ==
    /\ active = {1}
    /\ RegIdle
    /\ GeomIdle
    /\ TableIdle
    /\ StreamInit(Scan(0), MaxW)
    /\ PatchInit("none")
    /\ PagesIdle
    /\ \E a \in ConfigValues : \E b \in Variants(a, FALSE, TRUE) :
           RouteInit(a, b, 1, [p \in {0} |-> "base"])

SpecKeyArr == InitKeyArr /\ [][RouteNext]_vars

\* ... with any two settings values.
InitKeyAny ==
    /\ active = {1}
    /\ RegIdle
    /\ GeomIdle
    /\ TableIdle
    /\ StreamInit(Scan(0), MaxW)
    /\ PatchInit("none")
    /\ PagesIdle
    /\ \E a, b \in ConfigValues : RouteInit(a, b, 1, [p \in {0} |-> "base"])

SpecKeyAny == InitKeyAny /\ [][RouteNext]_vars

\* extract_tables on the pages of a document of up to MaxPages pages, each page with
\* any geometry, with equal or with different settings.
InitRoute ==
    /\ active = {1}
    /\ RegIdle
    /\ GeomIdle
    /\ TableIdle
    /\ StreamInit(Scan(0), MaxW)
    /\ PatchInit("none")
    /\ PagesIdle
    /\ \E b \in {NoSettings, <<"d", <<<<1, <<"s", 1>>>>>>>>} :
       \E n \in 1..MaxPages :
       \E geoms \in [0..(n - 1) -> {"base", "own", "derived"}] :
           RouteInit(NoSettings, b, n, geoms)

SpecRoute == InitRoute /\ [][RouteNext]_vars

\* The page collection of a pdf of up to MaxPages pages, with any page filter.
InitPages ==
    /\ active = {1}
    /\ RegIdle
    /\ GeomIdle
    /\ TableIdle
    /\ StreamInit(Scan(0), MaxW)
    /\ PatchInit("none") /\ RouteIdle
    \* pages_to_parse naming every page gives the collection that None gives
    /\ \E pc \in 1..MaxDocPages :
       \E pages_to_parse \in {AllPages}
               \cup {OnlyPages(S) : S \in (SUBSET (1..pc)) \ {1..pc}} :
           PagesInit(pc, pages_to_parse)

SpecPages == InitPages /\ [][PagesNext]_vars

SpecAsync == InitPages /\ [][AsyncNext]_vars

\* The page collection of a pdf whose document reports any page count, zero and
\* negative ones included, with any pages_to_parse.
InitLazy ==
    /\ active = {1}
    /\ RegIdle
    /\ GeomIdle
    /\ TableIdle
    /\ StreamInit(Scan(0), MaxW)
    /\ PatchInit("none")
    /\ RouteIdle
    /\ \E pc \in -1..MaxDocPages :
       \E pages_to_parse \in {AllPages}
               \cup {OnlyPages(S) : S \in SUBSET (1..(MaxDocPages + 1))} :
           Unbuilt(pc, pages_to_parse)

SpecLazy == InitLazy /\ [][LazyInitNext]_vars

\* A document of up to MaxDocPages pages, each page with any geometry: tables are
\* extracted from its pages and it is closed, in any order.
InitDoc ==
    /\ active = {1}
    /\ RegIdle
    /\ GeomIdle
    /\ TableIdle
    /\ StreamInit(Scan(0), MaxW)
    /\ PatchInit("none")
    /\ \E n \in 1..MaxDocPages :
       \E geoms \in [0..(n - 1) -> {"base", "own", "derived"}] :
           /\ PagesInit(n, AllPages)
           /\ RouteInit(NoSettings, <<"d", <<<<1, <<"s", 1>>>>>>>>, n, geoms)

DocNext ==
    \/ \E pg \in 0..(MaxDocPages - 1) : ExtractTables(1, pg)
    \/ PdfClose

SpecDoc == InitDoc /\ [][DocNext]_vars

\* The geometries of a pdf whose document reports any list of up to MaxBoxes boxes.
InitGeom ==
    /\ active = {1}
    /\ RegIdle
    /\ TableIdle
    /\ StreamInit(Scan(0), MaxW)
    /\ PatchInit("none")
    /\ PagesIdle
    /\ RouteIdle
    /\ \E bs \in BoxLists : GeomInit(bs)

SpecGeom == InitGeom /\ [][GeomNext]_vars

\* The doctops of the base geometries and of the page collection of a pdf, with any
\* boxes and any pages_to_parse.
InitDoctops ==
    /\ active = {1}
    /\ RegIdle
    /\ TableIdle
    /\ StreamInit(Scan(0), MaxW)
    /\ PatchInit("none")
    /\ RouteIdle
    /\ \E bs \in BoxLists : GeomInit(bs)
    /\ \E pc \in 1..MaxBoxes :
       \E ptp \in {AllPages} \cup {OnlyPages(S) : S \in SUBSET (1..MaxBoxes)} :
           PagesInit(pc, ptp)

SpecDoctops == InitDoctops /\ [][DoctopsNext]_vars

\* extract_table on a page whose extract_tables returns any list of up to MaxTables
\* tables.
InitTable ==
    /\ active = {1}
    /\ RegIdle
    /\ GeomIdle
    /\ StreamInit(Scan(0), MaxW)
    /\ PatchInit("none")
    /\ PagesIdle
    /\ RouteIdle
    /\ \E ts \in TableLists : TableInit(ts)

SpecTable == InitTable /\ [][TableNext]_vars

\* Two threads extracting tables from the pages of one pdf, with equal or with
\* different cache keys.
InitReg ==
    /\ active = Threads
    /\ RegInit
    /\ GeomIdle
    /\ TableIdle
    /\ StreamInit(Scan(0), MaxW)
    /\ PatchInit("none")
    /\ PagesIdle
    /\ RouteIdle

SpecReg == InitReg /\ [][RegNext]_vars

(***************************************************************************)
(* Part 1: properties of the streaming cache                               *)
(***************************************************************************)
Returned(t) == call[t].pc = "returned"

\* The threads inside the body of get (between taking and releasing the lock).
InGet == {t \in Threads : call[t].pc \in {"check", "replay", "pull", "exit"}}

\* C1 (cache bound): with a window W >= 1 and a Producer yielding non-decreasing
\* indices, each time get returns (after a hit, a live pull, a replay or an
\* exhausting pull) at most W entries are retained.
C1_CacheBound ==
    \A t \in Threads :
        (Returned(t) /\ cache_limit >= 1) => Cardinality(DOMAIN cache) <= cache_limit

\* C1 witness: a get served by a replay has returned on an exhausted instance whose
\* window of 2 is full.
C1_Witness ==
    /\ Returned(1) /\ call[1].path = "replay"
    /\ cache_limit = 2 /\ done /\ Cardinality(DOMAIN cache) = 2

\* C2 (replay correctness): over a Producer yielding 0..N-1 once each and W >= 1, every
\* get(i) that returns, whatever calls came before it, returns T_i when 0 <= i < N and
\* None otherwise.
C2_ReplayCorrect ==
    \A t \in Threads :
        (Returned(t) /\ producer \in ScanProducers /\ cache_limit >= 1) =>
            call[t].result = (IF call[t].page_index \in 0..(Len(producer) - 1)
                              THEN Payload(call[t].page_index + 1)
                              ELSE None)

\* C2 witness: after an earlier call for a later page, a backward jump was answered by
\* a replay with the page's payload.
C2_Witness ==
    /\ Returned(1) /\ producer = Scan(MaxScan) /\ cache_limit = 1
    /\ call[1].after = <<4>> /\ call[1].page_index = 1
    /\ call[1].path = "replay" /\ call[1].result = Payload(2)

\* C3, the state part: a get whose index was not retained and was below max_index_seen,
\* or that came after Exhausted, leaves get by the replay path having constructed
\* exactly one fresh run and pulled nothing from the live one; and in the scenario
\* W = 2, Producer (0,T0)..(4,T4), get(4) then get(0) return T4 then T0, the second by
\* a replay, with at most 2 entries retained afterwards.
C3_ReplayState ==
    /\ \A t \in Threads :
        (call[t].pc \in {"exit", "returned"} /\ ~call[t].pre.retained
            /\ (call[t].page_index < call[t].pre.max \/ call[t].pre.done))
        => (call[t].path = "replay" /\ call[t].fresh = 1 /\ call[t].pulls = 0)
    /\ \A t \in Threads :
        (producer = Scan(5) /\ cache_limit = 2 /\ Returned(t)) =>
            /\ call[t].page_index = 4 => call[t].result = Payload(5)
            /\ (call[t].after = <<4>> /\ call[t].page_index = 0) =>
                  (call[t].result = Payload(1) /\ call[t].path = "replay"
                   /\ Cardinality(DOMAIN cache) <= 2)

\* C3 (replay trigger): the state part always holds, and once Exhausted is set it is
\* never unset.
C3_ReplayTrigger == [](C3_ReplayState) /\ [][done => done']_vars

\* C3 witness: the scenario has run: get(4) returned T4, then get(0) returned T0 by a
\* replay.
C3_Witness ==
    /\ Returned(1) /\ producer = Scan(5) /\ cache_limit = 2
    /\ call[1].after = <<4>> /\ call[1].page_index = 0
    /\ call[1].result = Payload(1) /\ call[1].path = "replay"
    /\ call[1].fresh = 1 /\ call[1].pulls = 0 /\ ~done

\* C9 (serialized get): for any interleaving of the callers of one instance at most one
\* thread is inside the body of get, and every call returns what a single forward scan
\* yields for its index.
C9_Serialized ==
    /\ Cardinality(InGet) <= 1
    /\ \A t \in InGet : lock = t
    /\ \A t \in Threads :
        Returned(t) => call[t].result = ForwardScan(producer, call[t].page_index)

\* C9 witness: one thread is pulling from the live Producer while the other waits for
\* the lock, after a call has already returned.
C9_Witness ==
    /\ call[1].pc = "pull" /\ call[1].pulls >= 1
    /\ call[2].pc = "wait"
    /\ prev # << >>

\* C11 (Producer failure in get): when the live Producer raises during a pull, the
\* error reaches the caller of get with the lock released; the failing pull changes
\* neither the retained entries nor Exhausted (done) nor max_index_seen; and the next
\* get for an index not yet seen goes to the live Producer again (it is neither
\* replayed nor answered without a pull).
C11_ProducerFailure ==
    /\ [](\A t \in Threads :
            (call[t].pc = "returned" /\ call[t].raised) =>
                (lock # t /\ call[t].result = None /\ last_raised /\ ~done))
    /\ [](\A t \in Threads :
            (/\ call[t].pc \in {"replay", "pull", "exit"}
             /\ last_raised
             /\ ~call[t].pre.retained
             /\ call[t].page_index > call[t].pre.max) => call[t].path = "live")
    /\ [][\A t \in Threads :
            (call[t].pc = "pull" /\ call'[t].raised) =>
                (cache' = cache /\ done' = done /\ max_index_seen' = max_index_seen)]_vars

\* C11 witness: the call after a failed one pulled one element from the live Producer
\* and returns it, while an entry retained before the failure is still in the cache.
C11_Witness ==
    /\ last_raised
    /\ call[1].pc = "exit" /\ ~call[1].raised
    /\ call[1].path = "live" /\ call[1].pulls = 1
    /\ call[1].result # None
    /\ Cardinality(DOMAIN cache) = 2

(***************************************************************************)
(* Part 2: properties of the interception registry                         *)
(***************************************************************************)
InHookApply(t) == frame[t].ctx = "hook" /\ frame[t].pc \in ApplyPcs

\* C4 (exactly-once hook patch): the hook-triggered patch runs only after the module's
\* body has executed, with the process-wide lock held and patch_applied false; after a
\* successful attempt, and before the lock is released, patch_applied is true and the
\* hook is removed; the hook-triggered patch succeeds at most once.
C4_HookOnce ==
    /\ \A t \in Threads :
        InHookApply(t) => /\ HOOK_LOCK = t
                          /\ sys_modules[frame[t].module] = "executed"
                          /\ ~PATCH_APPLIED
    /\ \A t \in Threads :
        (frame[t].pc = "hook_exit" /\ frame[t].result = "True") =>
            /\ HOOK_LOCK = t
            /\ PATCH_APPLIED /\ ~HOOK_INSTALLED /\ meta_path = << >>
    /\ hook_successes <= 1

\* C4 witness: all three tracked modules were loaded through wrapped loaders (three
\* observed loads) and the patch succeeded once.
C4_Witness ==
    /\ AllLoaded /\ \A m \in Mods : wrapped[m]
    /\ hook_successes = 1 /\ PATCH_APPLIED

\* C5 (try_patch_now is idempotent), as claimed: a patch_pdfplumber() call made when
\* pdfplumber is fully loaded and every attribute is already installed reassigns none
\* of them and returns True.
C5_SecondCallNoOp ==
    /\ [](\A t \in Threads :
            (frame[t].pc = "returned" /\ frame[t].pre_patched) => frame[t].result = "True")
    /\ [][\A t \in Threads :
            (frame[t].ctx = "explicit" /\ frame[t].pre_patched) => installed' = installed]_vars

\* C6, the state part: an installed extract_tables, extract_table, pages getter or
\* close carries the marker and wraps no other implementation.
C6_Marked ==
    \A c \in MarkedCaps :
        installed[c].fn # 0 => (installed[c].marked /\ installed[c].wraps = 0)

\* C6 (patch idempotence by identity): with the patch-application path invoked
\* repeatedly in sequence, an installed extract_tables, extract_table, pages getter or
\* close stays the identical object, keeps its marker and wraps nothing.
C6_PatchIdempotent ==
    /\ [](C6_Marked)
    /\ [][\A c \in MarkedCaps : installed[c].fn # 0 => installed'[c] = installed[c]]_vars

\* C6 witness: a third invocation (an explicit call after the two hook-triggered ones)
\* has returned True and the functions are still those of the first two invocations.
C6_Witness ==
    /\ frame[1].pc = "returned" /\ frame[1].gen = 3 /\ frame[1].result = "True"
    /\ installed["extract_tables"].fn = 1 /\ installed["extract_table"].fn = 1
    /\ installed["pages"].fn = 2 /\ installed["close"].fn = 2

\* The containment part of C7: when the patch attempt of an observed load raised, then
\* before the lock is released the failure is logged, the hook is removed (flag false,
\* no finder registered) and patch_applied is false; the exception never reaches the
\* importer (no module load fails).
C7_Containment ==
    /\ \A t \in Threads :
        (frame[t].pc = "hook_exit" /\ frame[t].result = "raised") =>
            /\ ~HOOK_INSTALLED /\ meta_path = << >>
            /\ ~PATCH_APPLIED
            /\ log_count >= 1
    /\ \A t \in Threads : frame[t].pc # "hook_raise"
    /\ \A m \in Mods : sys_modules[m] # "failed"

\* C7 (hook-triggered failure is contained), as claimed: when the patch attempt of an
\* observed load raised, the failure is logged and does not reach the importer, the hook
\* is removed, patch_applied is false, and the module is left unpatched: nothing the
\* failed attempt substituted is installed.
C7_HookFailureContained ==
    /\ C7_Containment
    /\ \A t \in Threads :
        (frame[t].pc = "hook_exit" /\ frame[t].result = "raised") =>
            \A c \in Caps : installed[c].fn # frame[t].gen

\* C8 (the explicit path contains errors), as claimed: patch_pdfplumber() never raises;
\* every call returns True or False.
C8_ExplicitNeverRaises ==
    \A t \in Threads :
        (frame[t].ctx = "explicit" /\ frame[t].pc = "returned") =>
            frame[t].result \in {"True", "False"}

\* C10 (patch paths race harmlessly), as claimed: for any interleaving of the explicit
\* and the hook-triggered path, once a marked implementation of a capability is
\* installed it is never replaced by another.
C10_SubstitutedOnce ==
    [][\A c \in MarkedCaps :
          installed[c].marked => installed'[c].fn = installed[c].fn]_vars

(***************************************************************************)
(* Part 3: properties of the key normalizer and the routing                *)
(***************************************************************************)
\* C12 (mapping order does not matter): extract_tables calls whose settings differ only
\* in the insertion order of mappings, at any depth, compute equal keys and are served
\* by one stream cache instance: only the first call makes one.
C12_MappingOrder ==
    /\ NormalizeKey(settings[1]) = NormalizeKey(settings[2])
    /\ \A j, k \in 1..Len(routed) :
          routed[j].key = routed[k].key /\ routed[j].inst = routed[k].inst
    /\ \A j \in 1..Len(routed) : routed[j].made <=> j = 1
    /\ Len(insts) <= 1 /\ Cardinality(streams) <= 1

\* C12 witness: {1: {2: 1, 1: 2}} and {1: {1: 2, 2: 1}} were both used, and the second
\* call found the instance of the first.
C12_Witness ==
    /\ settings[1] = <<"d", <<<<1, <<"d", <<<<2, <<"s", 1>>>>, <<1, <<"s", 2>>>>>>>>>>>>>>
    /\ settings[2] = <<"d", <<<<1, <<"d", <<<<1, <<"s", 2>>>>, <<2, <<"s", 1>>>>>>>>>>>>>>
    /\ Len(routed) = 2
    /\ routed[1].which = 1 /\ routed[2].which = 2
    /\ ~routed[2].made /\ routed[2].inst = routed[1].inst

\* C13 (array order does not matter), as claimed: calls whose settings differ only in
\* the order of the elements of arrays compute equal keys.
C13_ArrayOrder ==
    \A j, k \in 1..Len(routed) : routed[j].key = routed[k].key

\* Whether two configurations have the same keys and values up to ordering: mappings
\* with the same keys and equivalent values, sequences with equivalent elements in some
\* order, equal scalars.
RECURSIVE Equivalent(_, _)
Equivalent(a, b) ==
    IF a[1] = "s" \/ b[1] = "s" THEN a = b
    ELSE IF a[1] = "d" \/ b[1] = "d"
    THEN /\ a[1] = b[1]
         /\ Len(a[2]) = Len(b[2])
         /\ \A j \in 1..Len(a[2]) : \E k \in 1..Len(b[2]) :
                a[2][j][1] = b[2][k][1] /\ Equivalent(a[2][j][2], b[2][k][2])
    ELSE /\ Len(a[2]) = Len(b[2])
         /\ \E f \in Perms(Len(a[2])) :
                \A k \in 1..Len(a[2]) : Equivalent(a[2][k], b[2][f[k]])

\* C14 (normalize is exact), as claimed: the keys of two calls are equal if and only if
\* their settings are equivalent.
C14_NormalizeExact ==
    \A j, k \in 1..Len(routed) :
        (routed[j].key = routed[k].key)
            <=> Equivalent(settings[routed[j].which], settings[routed[k].which])

\* The "in particular" of C14: equal keys only for equivalent settings.
C14_NoCollision ==
    \A j, k \in 1..Len(routed) :
        (routed[j].key = routed[k].key)
            => Equivalent(settings[routed[j].which], settings[routed[k].which])

\* The calls made so far have equal settings, are on original pages whose geometry is
\* the canonical one, and are in ascending page order.
ReuseCase ==
    /\ \A j \in 1..Len(routed) :
          /\ settings[routed[j].which] = settings[routed[1].which]
          /\ page_geoms[routed[j].page] = "base"
    /\ \A j \in 1..(Len(routed) - 1) : routed[j].page <= routed[j + 1].page

\* C15 (Producer reuse): calls with equal settings on original pages of canonical
\* geometry, in ascending page order, construct the Producer once: one stream cache
\* instance serves them all, from its live run or its cache, never by a replay, and
\* each call gets the tables of its page.
C15_ProducerReuse ==
    (ReuseCase /\ Len(routed) >= 1) =>
        /\ runs = 1 /\ Len(insts) = 1 /\ Cardinality(streams) = 1
        /\ \A j \in 1..Len(routed) :
              /\ routed[j].inst = 1
              /\ routed[j].path \in {"live", "hit"}
              /\ routed[j].made <=> j = 1
              /\ routed[j].result = Payload(routed[j].page + 1)

\* C15 witness: pages 0, 1 and 2 of a three-page document, in order, each pulled from
\* the one live run.
C15_Witness ==
    /\ ReuseCase /\ Len(routed) = 3
    /\ \A j \in 1..3 : routed[j].page = j - 1 /\ routed[j].path = "live"
    /\ runs = 1

(***************************************************************************)
(* Part 4: properties of the lazy page collection                          *)
(***************************************************************************)
\* The filtered index an int index denotes, and whether it is in range.
Norm(idx) == IF idx < 0 THEN idx + Len(page_numbers) ELSE idx

InRange(idx) == Norm(idx) >= 0 /\ Norm(idx) < Len(page_numbers)

\* The number of times k occurs in the sequence q.
Occurrences(q, k) == Cardinality({j \in 1..Len(q) : q[j] = k})

\* The number of close() calls wrapper w has received.
Releases(rel, w) == IF w \in DOMAIN rel THEN rel[w] ELSE 0

AsyncOps == {"astart", "astep", "aend", "astop"}

CloseOps == {"close", "pdf_close"}

\* C16: every step of an asynchronous traversal (its start, each page it yields, its
\* end, an early stop, a get_page failure) leaves the memo map exactly as it was, so
\* the memo map after the traversal is the one before it, and an empty one stays empty.
C16_AsyncLeavesMemo ==
    [][(aiter' # aiter \/ lp_last'.op \in AsyncOps) => page_cache' = page_cache]_vars

\* An asynchronous traversal has just built and yielded its last page, which the memo
\* map, holding another page, does not hold.
C16_Witness ==
    /\ lp_last.op = "astep" /\ lp_last.err = "none"
    /\ lp_last.called # << >>
    /\ page_cache # EmptyMap
    /\ lp_last.pages[1] \notin Wrappers(page_cache)
    /\ aiter.pos = Len(page_numbers)

\* C17: every page an asynchronous traversal yields was resolved by one get_page call
\* for its canonical index, and is not a wrapper the memo map held.
C17_AsyncIgnoresMemo ==
    [][(lp_last'.op = "astep" /\ lp_last'.err = "none") =>
           /\ lp_last'.called = <<page_numbers[lp_last'.arg + 1]>>
           /\ lp_last'.pages[1] \notin Wrappers(page_cache)]_vars

\* C18, one get(i), directly or by synchronous iteration: an index out of range raises
\* IndexError and changes nothing; an index whose canonical index is memoized returns
\* the memoized wrapper without a get_page call; otherwise get_page is called once for
\* the canonical index and the new wrapper is memoized, the other entries kept.
C18_GetOne ==
    lp_last'.op \in {"get", "iter_step"} =>
        IF ~InRange(lp_last'.arg)
        THEN /\ lp_last'.err = "IndexError"
             /\ lp_last'.called = << >>
             /\ page_cache' = page_cache
        ELSE LET k == page_numbers[Norm(lp_last'.arg) + 1]
             IN IF k \in DOMAIN page_cache
                THEN /\ lp_last'.err = "none"
                     /\ lp_last'.pages = <<page_cache[k]>>
                     /\ lp_last'.called = << >>
                     /\ page_cache' = page_cache
                ELSE /\ lp_last'.called = <<k>>
                     /\ lp_last'.err # "IndexError"
                     /\ lp_last'.err = "none" =>
                            /\ Len(lp_last'.pages) = 1
                            /\ lp_last'.pages[1] \notin Wrappers(page_cache)
                            /\ DOMAIN page_cache' = DOMAIN page_cache \cup {k}
                            /\ page_cache'[k] = lp_last'.pages[1]
                            /\ \A j \in DOMAIN page_cache : page_cache'[j] = page_cache[j]

\* C18, a slice: every wrapper it returns is the memoized wrapper of a filtered index,
\* in ascending index order, and get_page is called once for each canonical index it
\* memoizes and for no other.
C18_Slice ==
    (lp_last'.op = "slice" /\ lp_last'.err = "none") =>
        /\ \A j \in 1..Len(lp_last'.pages) :
               \E k \in DOMAIN page_cache' :
                   /\ page_cache'[k] = lp_last'.pages[j]
                   /\ \A h \in 1..(j - 1) :
                          \E g \in DOMAIN page_cache' :
                              g < k /\ page_cache'[g] = lp_last'.pages[h]
        /\ \A k \in DOMAIN page_cache' \ DOMAIN page_cache :
               Occurrences(lp_last'.called, k) = 1
        /\ Len(lp_last'.called) = Cardinality(DOMAIN page_cache' \ DOMAIN page_cache)
        /\ Len(lp_last'.pages) >= Len(lp_last'.called)

\* C18, between operations: a memoized wrapper stays the wrapper of its index until a
\* close(), no synchronous access calls get_page for a memoized index, and the engine's
\* call count grows by exactly the calls the operation made.
C18_MemoStable ==
    /\ \A k \in DOMAIN page_cache :
           /\ lp_last'.op \notin CloseOps =>
                  k \in DOMAIN page_cache' /\ page_cache'[k] = page_cache[k]
           /\ lp_last'.op \in {"get", "slice", "iter_step"} =>
                  Occurrences(lp_last'.called, k) = 0
    /\ get_page_calls' = get_page_calls + Len(lp_last'.called)

\* C18, a full synchronous iteration on a collection no close() has released a wrapper
\* of: the memo map holds exactly the filtered index set.
C18_FullIteration ==
    (lp_last.op = "iter_end" /\ released = EmptyMap) =>
        DOMAIN page_cache = {page_numbers[j] : j \in 1..Len(page_numbers)}

C19_CloseStep ==
    lp_last'.op \in CloseOps =>
        /\ page_cache' = EmptyMap
        /\ \A w \in 1..MaxWrappers :
               Releases(released', w) =
                   Releases(released, w) + (IF w \in Wrappers(page_cache) THEN 1 ELSE 0)
        /\ page_cache = EmptyMap => released' = released
        /\ wrappers' = wrappers
        /\ get_page_calls' = get_page_calls
        /\ siter' = siter /\ aiter' = aiter
        /\ lp_last'.called = << >> /\ lp_last'.pages = << >>

\* C19: lazy close.
C19_LazyClose ==
    /\ [][C19_CloseStep]_vars
    /\ [](lp_last.op \in CloseOps => page_cache = EmptyMap)
    /\ [](\A w \in DOMAIN released : released[w] = 1)

\* The patched PDF.close() has just released two memoized wrappers while a synchronous
\* iteration was in progress.
C19_Witness ==
    /\ lp_last.op = "pdf_close"
    /\ lp_last.arg = 2
    /\ Cardinality(DOMAIN released) >= 2
    /\ siter.on
    /\ page_cache = EmptyMap

(***************************************************************************)
(* Part 2: PatchApplied is terminal                                        *)
(***************************************************************************)
\* Everything of the registry and the target except the frames and the lock.
RegistryState == <<HOOK_INSTALLED, PATCH_APPLIED, meta_path, sys_modules, wrapped,
                   pkg_page, installed, gen_count, hook_successes, log_count>>

\* C20, steps: _PATCH_APPLIED never goes back to false; while it is true, the body of
\* _install_hook changes nothing of the registry (no finder is inserted, no name is
\* added, _HOOK_INSTALLED is not set), no exec_module of a tracked module starts
\* _apply_patch, and none sets the flag again.
C20_Steps ==
    PATCH_APPLIED =>
        /\ PATCH_APPLIED'
        /\ \A t \in Threads :
               (frame[t].pc = "ih_body" /\ frame'[t].pc # "ih_body") =>
                   /\ RegistryState' = RegistryState
                   /\ frame'[t].pc = "returned" /\ frame'[t].result = "False"
        /\ \A t \in Threads :
               (frame[t].pc = "hook_check" /\ frame'[t].pc # "hook_check") =>
                   /\ RegistryState' = RegistryState
                   /\ frame'[t].pc = "hook_exit" /\ frame'[t].result = "skipped"
        /\ hook_successes' = hook_successes

\* C20, states: while _PATCH_APPLIED is true the hook is not installed, no finder of
\* the patch is on sys.meta_path, and no exec_module is inside _apply_patch.
C20_States ==
    PATCH_APPLIED =>
        /\ ~HOOK_INSTALLED
        /\ meta_path = << >>
        /\ \A t \in Threads :
               frame[t].ctx = "hook" => frame[t].pc \notin ApplyPcs \cup {"hook_handle"}

\* C20: PatchApplied is terminal.
C20_PatchAppliedTerminal == [][C20_Steps]_vars /\ []C20_States

\* The patch was applied by the hook, and a patch_pdfplumber() call that saw the
\* package without its page attribute is inside _install_hook, holding the lock.
C20_Witness ==
    /\ PATCH_APPLIED /\ hook_successes = 1
    /\ \E t \in Threads : frame[t].pc = "ih_body" /\ HOOK_LOCK = t

(***************************************************************************)
(* Part 2: one patch finder at most                                        *)
(***************************************************************************)
\* C21, steps: the body of _install_hook, run while the hook is installed, leaves one
\* patch finder on sys.meta_path, whose names are the former ones and the given ones;
\* as long as the finder stays, no step takes a name from it.
C21_Steps ==
    /\ \A t \in Threads :
           (frame[t].pc = "ih_body" /\ frame'[t].pc # "ih_body" /\ HOOK_INSTALLED) =>
               /\ HOOK_INSTALLED'
               /\ Len(meta_path') = 1
               /\ meta_path'[1] = meta_path[1] \cup frame[t].names
    /\ (Len(meta_path) = 1 /\ Len(meta_path') = 1) => meta_path[1] \subseteq meta_path'[1]

\* C21, states: sys.meta_path holds at most one patch finder, and holds one exactly
\* when _HOOK_INSTALLED is true.
C21_States ==
    /\ Len(meta_path) <= 1
    /\ Len(meta_path) = 1 <=> HOOK_INSTALLED

\* C21: install_hook is safe to repeat.
C21_InstallRepeatable == [][C21_Steps]_vars /\ []C21_States

\* Two patch_pdfplumber() calls have installed the hook, one for the two submodules and
\* one for all three modules: there is one finder and it tracks the three.
C21_Witness ==
    /\ \A t \in Threads : frame[t].pc = "returned" /\ frame[t].result = "False"
    /\ frame[Importer].names = {PageMod, PdfMod}
    /\ \E t \in Threads : frame[t].names = Mods
    /\ HOOK_INSTALLED
    /\ meta_path = <<Mods>>

(***************************************************************************)
(* Part 2: a declined attempt keeps the hook                               *)
(***************************************************************************)
\* exec_module has got False from _apply_patch (before or after handling it).
Declined(t) ==
    /\ frame[t].ctx = "hook"
    /\ frame[t].pc \in {"hook_handle", "hook_exit"}
    /\ frame[t].result = "False"

\* C22, steps: exec_module handles a False from _apply_patch by changing nothing (no
\* flag, no finder, no log record) and returns normally; and as long as _PATCH_APPLIED
\* is false, the exec_module of a tracked module calls _apply_patch.
C22_Steps ==
    /\ \A t \in Threads :
           (Declined(t) /\ frame[t].pc = "hook_handle" /\ frame'[t] # frame[t]) =>
               /\ frame'[t].pc = "hook_exit"
               /\ RegistryState' = RegistryState
    /\ \A t \in Threads :
           (frame[t].pc = "hook_exit" /\ frame[t].result = "False"
               /\ frame'[t] # frame[t]) =>
               sys_modules'[frame[t].module] = "loaded"
    /\ \A t \in Threads :
           (frame[t].pc = "hook_check" /\ frame'[t] # frame[t] /\ ~PATCH_APPLIED) =>
               frame'[t].pc = "ap_resolve"

\* C22, states: when an attempt has declined, _PATCH_APPLIED is false, the hook is
\* installed with its finder, and a tracked module is still being loaded through a
\* wrapped loader, whose exec_module comes next.
C22_States ==
    \A t \in Threads :
        Declined(t) =>
            /\ ~PATCH_APPLIED
            /\ HOOK_INSTALLED /\ Len(meta_path) = 1
            /\ \E m \in Mods : sys_modules[m] = "loading" /\ wrapped[m]
                                  /\ m \in meta_path[1]

\* C22: PatchUnavailable keeps the hook.
C22_DeclineKeepsHook == [][C22_Steps]_vars /\ []C22_States

\* The attempt made at the load of pdfplumber.page, while pdfplumber.pdf has no PDF
\* class yet, has declined and was handled: the hook is still installed.
C22_Witness ==
    /\ Declined(Importer)
    /\ frame[Importer].pc = "hook_exit"
    /\ frame[Importer].module = PageMod
    /\ HOOK_INSTALLED /\ ~PATCH_APPLIED
    /\ sys_modules[PdfMod] = "loading" /\ wrapped[PdfMod]

(***************************************************************************)
(* C23: after the patched PDF.close() returns, the pdf holds neither the    *)
(* base-geometry cache (_bolivar_table_geom_base) nor the map of stream     *)
(* caches (_bolivar_table_streams): both are torn down with the document.   *)
(***************************************************************************)
C23_CloseStep ==
    (lp_last'.op = "pdf_close" /\ routed' = routed) =>
        /\ GEOM_BASE \notin pdf_attrs'
        /\ TABLE_STREAMS \notin pdf_attrs'
        /\ streams' = {}

C24_SinglePageBypass ==
    doc_pages = 1 =>
        /\ streams = {}
        /\ \A k \in 1..Len(routed) :
               /\ routed[k].path = "direct"
               /\ ~routed[k].made
               /\ routed[k].inst = 0

(***************************************************************************)
(* C25: in a process started with BOLIVAR_PDFPLUMBER_PATCH=0, loading the  *)
(* shim neither installs the hook nor substitutes Page.extract_tables.     *)
(***************************************************************************)
C25_OptOutDisables ==
    env_opt_out => /\ ~HOOK_INSTALLED
                   /\ ~PATCH_APPLIED
                   /\ ~installed["extract_tables"].marked

\* C25 as the code has it: the toggle is not read. With BOLIVAR_PDFPLUMBER_PATCH=0 the
\* shim's call enters patch_pdfplumber() as without it, the toggle never changes, and
\* in a sound environment pdfplumber, once loaded, has Page.extract_tables substituted.
C25_Steps ==
    /\ env_opt_out' = env_opt_out
    /\ \A t \in Threads :
           (env_opt_out /\ explicit_calls = 0 /\ explicit_calls' = 1
                /\ frame'[t].pc # "idle") =>
               frame'[t].pc \in {"ap_resolve", "ih_wait"}

C25_States ==
    (env_opt_out /\ fault = "none" /\ AllLoaded /\ frame[Importer].pc = "idle") =>
        /\ PATCH_APPLIED
        /\ installed["extract_tables"].marked

C25_OptOutIgnored == [][C25_Steps]_vars /\ []C25_States

\* pdfplumber was loaded in a process started with the toggle set, and the hook
\* substituted Page.extract_tables.
C25_Witness ==
    /\ env_opt_out
    /\ fault = "none"
    /\ AllLoaded
    /\ frame[Importer].pc = "idle"
    /\ hook_successes = 1
    /\ installed["extract_tables"].marked

(***************************************************************************)
(* C26: _build_geometries returns a list as long as base that equals base  *)
(* at every index except possibly page_index, where it holds the observed  *)
(* geometry; an out-of-range page_index yields an exact copy; the base     *)
(* list cached on the pdf is never modified.                               *)
(***************************************************************************)
C26_SingleEntryOverride ==
    geom.last.op = "build" =>
        LET base == BaseGeometries(geom.boxes)
            result == geom.last.result
            at == geom.last.page_index + 1
        IN /\ Len(result) = Len(base)
           /\ \A k \in 1..Len(base) : k # at => result[k] = base[k]
           /\ at \in 1..Len(base) => result[at] = geom.last.current
           /\ at \notin 1..Len(base) => result = base
           /\ geom.base = SomeList(base)

\* The geometry of the second of two pages was overridden by one that differs from
\* the canonical one.
C26_Witness ==
    /\ geom.last.op = "build"
    /\ Len(geom.boxes) = 2
    /\ geom.last.page_index = 1
    /\ geom.last.current # BaseGeometries(geom.boxes)[2]
    /\ geom.last.result[2] = geom.last.current
    /\ geom.base = SomeList(BaseGeometries(geom.boxes))

\* The first doctop of a list is 0 and the doctops never decrease.
DoctopsOrdered(tops) ==
    /\ Len(tops) > 0 => tops[1] = 0
    /\ \A k \in 1..(Len(tops) - 1) : tops[k] <= tops[k + 1]

(***************************************************************************)
(* C27: for every list of media boxes, the doctops of the base geometries  *)
(* start at 0 and never decrease from one page to the next, and so do the  *)
(* doctops of the page collection over its filtered index list.            *)
(***************************************************************************)
C27_DoctopInvariant ==
    /\ geom.base # NoList =>
           DoctopsOrdered([k \in 1..Len(geom.base[2]) |-> geom.base[2][k][3]])
    /\ geom.doctops # NoList => DoctopsOrdered(geom.doctops[2])

(***************************************************************************)
(* C28: extract_table returns None exactly when extract_tables returns an  *)
(* empty result; otherwise it returns a table of that result whose total   *)
(* cell count is maximal, the first such table when several tie.           *)
(***************************************************************************)
C28_PicksLargest ==
    LET ts == table_call.tables
        picked == table_call.picked
    IN picked # Uncalled =>
           /\ picked = NoTable <=> ts = << >>
           /\ picked # NoTable =>
                  \E k \in 1..Len(ts) :
                      /\ picked[2] = ts[k]
                      /\ \A j \in 1..Len(ts) :
                             TableCellCount(ts[j]) <= TableCellCount(ts[k])
                      /\ \A j \in 1..(k - 1) :
                             TableCellCount(ts[j]) < TableCellCount(ts[k])

\* Two tables tie on the cell count, the first has fewer rows, and it is returned.
C28_Witness ==
    LET ts == table_call.tables
    IN /\ Len(ts) = 2
       /\ TableCellCount(ts[1]) = TableCellCount(ts[2])
       /\ TableCellCount(ts[1]) > 0
       /\ Len(ts[1]) < Len(ts[2])
       /\ table_call.picked = <<"table", ts[1]>>

(***************************************************************************)
(* C29: extract_tables on a page view that is not original computes from   *)
(* the view's own objects: it neither creates nor consults a stream cache  *)
(* nor reads or writes the pdf's base-geometry cache; and no extract_tables *)
(* call materializes a page wrapper.                                       *)
(***************************************************************************)
C29_Step ==
    Len(routed') = Len(routed) + 1 =>
        LET r == routed'[Len(routed')]
        IN /\ page_geoms[r.page] = "derived" =>
                  /\ r.path = "direct" /\ r.inst = 0 /\ ~r.made
                  /\ r.base = "unused"
                  /\ streams' = streams /\ insts' = insts /\ runs' = runs
                  /\ pdf_attrs' = pdf_attrs
           /\ wrappers' = wrappers
           /\ page_cache' = page_cache
           /\ get_page_calls' = get_page_calls

C29_NonOriginalBypass == [][C29_Step]_vars

\* Tables were extracted from a page view that is not original, on a pdf that holds a
\* stream made for an original page.
C29_Witness ==
    /\ Len(routed) >= 2
    /\ page_geoms[routed[Len(routed)].page] = "derived"
    /\ routed[Len(routed)].path = "direct"
    /\ routed[1].made
    /\ Cardinality(streams) = 1
    /\ runs = 1
    /\ pdf_attrs = {GEOM_BASE, TABLE_STREAMS}

\* The canonical indices pages_to_parse admits.
Admitted ==
    {idx \in 0..(page_count - 1) :
         pdf_pages_to_parse = AllPages \/ (idx + 1) \in pdf_pages_to_parse[2]}

(***************************************************************************)
(* C30: the index list of the collection is the ascending list of the      *)
(* canonical indices idx in 0..page_count-1 with idx+1 in pages_to_parse   *)
(* (all of them when pages_to_parse is None), len() is its length,         *)
(* contains(x) holds exactly when x's page number minus 1 is in the list,  *)
(* and construction fails when page_count() <= 0.                          *)
(***************************************************************************)
C30_IndexSet ==
    /\ Built =>
           /\ page_count > 0
           /\ PageNumberSet(page_numbers) = Admitted
           /\ \A k \in 1..(Len(page_numbers) - 1) : page_numbers[k] < page_numbers[k + 1]
    /\ (lp_last.op = "init" /\ page_count <= 0) => lp_last.err # "none"
    /\ lp_last.op = "len" => lp_last.arg = Cardinality(Admitted)
    /\ lp_last.op = "contains" =>
           (lp_last.found <=> /\ lp_last.item # NoPageNumber
                              /\ (lp_last.item[2] - 1) \in Admitted)

\* The second of two pages is the only one pages_to_parse admits, and the collection
\* was asked for it.
C30_Witness ==
    /\ page_count = 2
    /\ pdf_pages_to_parse = OnlyPages({2, 3})
    /\ page_numbers = <<1>>
    /\ lp_last.op = "contains"
    /\ lp_last.item = <<"page", 2>>
    /\ lp_last.found

(***************************************************************************)
(* Part 1: further properties of the streaming cache                       *)
(***************************************************************************)
\* C31 (entries never mutated in place): for a Producer yielding non-decreasing indices,
\* repeats included, no step replaces the payload retained for an index by a different
\* one, and every get answered by a hit or by a replay returns the payload a forward
\* scan of a run yields for its index.
C31_NeverMutated ==
    /\ [][\A k \in (DOMAIN cache) \cap (DOMAIN cache') : cache'[k] = cache[k]]_vars
    /\ [](\A t \in Threads :
            (Returned(t) /\ call[t].path \in {"hit", "replay"}) =>
                call[t].result = ForwardScan(producer, call[t].page_index))

\* C32 (correctness independent of the window): for every cache limit the constructor
\* accepts, 0 and the negative values it clamps to 0 included, every get(i) that
\* returns, the first one included, returns the payload a forward scan yields for i
\* when the Producer yields i (stated for the Producers that yield each index once).
C32_WindowIndependent ==
    \A t \in Threads :
        (/\ Returned(t)
         /\ producer \in ScanProducers
         /\ \E k \in 1..Len(producer) : producer[k] = call[t].page_index)
        => call[t].result = ForwardScan(producer, call[t].page_index)

\* The Producer yields page index i at some position of a run.
Yields(p, i) == \E k \in 1..Len(p) : p[k] = i

\* C33 (live drain for an absent index): a get(i) served from the live Producer for an
\* index no element of the run carries has, when it leaves the loop, pulled the run to
\* its end, set Exhausted and produced None; every call that is pulling eventually
\* returns; and every miss that finds Exhausted set is served by a replay.
C33_LiveDrain ==
    /\ [](\A t \in Threads :
            (/\ call[t].pc \in {"exit", "returned"}
             /\ call[t].path = "live"
             /\ ~Yields(producer, call[t].page_index))
            => (done /\ stream = Len(producer) /\ call[t].result = None))
    /\ [](\A t \in Threads :
            (/\ call[t].pc \in {"replay", "pull", "exit", "returned"}
             /\ call[t].pre.done
             /\ ~call[t].pre.retained)
            => (call[t].path = "replay" /\ call[t].pulls = 0))
    /\ \A t \in Threads : (call[t].pc = "pull") ~> Returned(t)

\* C33 witness: get(1) on a run yielding 0 and 2 pulled both elements, met the end of
\* the run and returned None with Exhausted set.
C33_Witness ==
    /\ producer = <<0, 2>>
    /\ Returned(1) /\ call[1].page_index = 1 /\ call[1].path = "live"
    /\ call[1].pulls = 2 /\ call[1].result = None
    /\ done /\ ~call[1].pre.done

\* The position in a run of the first element whose index is at least i; one past the
\* end of the run when there is none.
FirstAtLeast(p, i) ==
    IF \E k \in 1..Len(p) : p[k] >= i
    THEN CHOOSE k \in 1..Len(p) : p[k] >= i /\ \A j \in 1..(k - 1) : p[j] < i
    ELSE Len(p) + 1

\* C34 (bounded replay): a replay for index i has, when it ends, taken from the fresh
\* run exactly the elements up to and including the first one whose index is >= i (the
\* whole run when there is none); it produces that element's payload when its index is
\* i and None otherwise; while it runs it has never taken an element beyond that one.
C34_BoundedReplay ==
    \A t \in Threads :
        LET i == call[t].page_index
            first == FirstAtLeast(producer, i)
        IN /\ call[t].path = "replay" => call[t].scanned <= first
           /\ (call[t].path = "replay" /\ call[t].pc \in {"exit", "returned"}) =>
                /\ call[t].scanned = (IF first <= Len(producer) THEN first
                                      ELSE Len(producer))
                /\ call[t].result = (IF first <= Len(producer) /\ producer[first] = i
                                     THEN Payload(first)
                                     ELSE None)
                /\ call[t].fresh = 1

\* C34 witness: a replay for the absent index 1 on a run yielding 0, 2, 3 stopped at
\* the element with index 2 and returned None, leaving the last element unread.
C34_Witness ==
    /\ producer = <<0, 2, 3>>
    /\ Returned(1) /\ call[1].path = "replay" /\ call[1].page_index = 1
    /\ call[1].scanned = 2 /\ call[1].result = None

\* C35 (a replay and a hit change nothing): no step of a get that is served by a hit or
\* by a replay changes the retained entries, max_index_seen, Exhausted or the position
\* of the live Producer; a hit constructs no run and pulls from none, and a replay pulls
\* nothing from the live run.
C35_Steps ==
    \A t \in Threads :
        (/\ call'[t] # call[t]
         /\ call'[t].path \in {"hit", "replay"}
         /\ call'[t].pc \in {"replay", "exit", "returned"})
        => UNCHANGED <<cache, max_index_seen, done, stream>>

C35_States ==
    \A t \in Threads :
        /\ call[t].path = "hit" =>
               (call[t].fresh = 0 /\ call[t].pulls = 0 /\ call[t].scanned = 0)
        /\ call[t].path = "replay" => (call[t].fresh = 1 /\ call[t].pulls = 0)

C35_ReplayAndHitPure == [][C35_Steps]_vars /\ []C35_States

\* C35 witness: a replay found its index in the fresh run and returned the payload,
\* while the index is still not retained and the live run is still where it was, not
\* exhausted.
C35_Witness ==
    /\ Returned(1) /\ call[1].path = "replay" /\ call[1].result # None
    /\ call[1].page_index \notin DOMAIN cache
    /\ cache # EmptyMap /\ ~done /\ stream < Len(producer)

\* The largest index among the first n elements of a run, -1 when n = 0.
LargestPulled(p, n) ==
    IF n = 0 THEN -1 ELSE CHOOSE m \in {p[k] : k \in 1..n} : \A k \in 1..n : p[k] <= m

\* C36 (window invariant): with W >= 1 and a Producer yielding non-decreasing indices,
\* whenever get has returned every retained index lies between max_index_seen - (W - 1)
\* and max_index_seen, max_index_seen is the largest index pulled from the live run so
\* far (-1 when nothing was pulled) and is itself retained when something was pulled;
\* and no step lowers max_index_seen.
C36_State ==
    \A t \in Threads :
        (Returned(t) /\ cache_limit >= 1) =>
            /\ \A k \in DOMAIN cache :
                   max_index_seen - (cache_limit - 1) <= k /\ k <= max_index_seen
            /\ max_index_seen = LargestPulled(producer, stream)
            /\ stream > 0 => max_index_seen \in DOMAIN cache

C36_WindowInvariant == []C36_State /\ [][max_index_seen' >= max_index_seen]_vars

\* C36 witness: get returned after three pulls with W = 2: the indices 2 and 3 are
\* retained, index 1 was evicted, and max_index_seen is 3.
C36_Witness ==
    /\ Returned(1) /\ cache_limit = 2 /\ producer = <<1, 2, 3>>
    /\ stream = 3 /\ max_index_seen = 3 /\ DOMAIN cache = {2, 3}

(***************************************************************************)
(* Part 7: properties of the stream map under concurrency                  *)
(***************************************************************************)
\* The instances made for a key.
InstancesOf(key) ==
    {id \in 1..Len(stream_reg.insts) : stream_reg.insts[id].key = key}

\* C37 (one instance per key under concurrency): for one pdf at most one map of
\* instances and at most one instance per cache key are ever made, also when two
\* threads meet on the first miss; no step replaces the instance a map holds for a key;
\* and a step changes the state of an instance only when it is the get of a thread
\* that holds this instance, made for the key of its call.
C37_OnePerKey ==
    /\ [](/\ Len(stream_reg.maps) <= 1
          /\ \A key \in Keys : Cardinality(InstancesOf(key)) <= 1)
    /\ [][\A m \in 1..Len(stream_reg.maps) :
            \A key \in DOMAIN stream_reg.maps[m] :
                stream_reg'.maps[m][key] = stream_reg.maps[m][key]]_vars
    /\ [][\A id \in 1..Len(stream_reg.insts) :
            stream_reg'.insts[id] # stream_reg.insts[id] =>
                \E t \in Threads :
                    /\ stream_reg.frames[t].pc = "get"
                    /\ stream_reg.frames[t].result = id
                    /\ stream_reg.insts[id].key = stream_reg.frames[t].key]_vars

(***************************************************************************)
(* Part 2: further properties of the interception registry                 *)
(***************************************************************************)
\* C38 (no deadlock on the process-wide lock): no thread requests _HOOK_LOCK while it
\* holds it; when a hook-triggered patch attempt reaches "import pdfplumber.pdf" with
\* the lock held, the module is already in sys.modules, so the statement starts no
\* load; a load that returns from its observer leaves the lock released; and every
\* tracked module whose body has run under a wrapping loader eventually finishes
\* loading, whether the attempt succeeded, declined or raised.
C38_Steps ==
    \A m \in Mods :
        (sys_modules[m] = "executed" /\ sys_modules'[m] # "executed") =>
            (HOOK_LOCK = Importer /\ HOOK_LOCK' = 0 /\ sys_modules'[m] = "loaded")

C38_States ==
    \A t \in Threads :
        /\ frame[t].pc \in {"hook_wait", "ih_wait"} => HOOK_LOCK # t
        /\ (frame[t].pc = "ap_import_pdf" /\ frame[t].ctx = "hook") =>
               (HOOK_LOCK = t /\ sys_modules[PdfMod] # "absent")

C39_LoggedOnce ==
    /\ [](explicit_calls <= 1 => log_count <= 1)
    /\ [][\A t \in Threads :
            (/\ explicit_calls <= 1 /\ log_count >= 1
             /\ frame[t].pc = "hook_check" /\ frame'[t] # frame[t])
            => frame'[t].pc = "hook_exit"]_vars

\* C40 (lock discipline): a thread that is about to read or write _HOOK_INSTALLED or
\* _PATCH_APPLIED (in the body of _install_hook, at the test and at the handling of the
\* outcome in exec_module, in _remove_hook) holds _HOOK_LOCK; and every step that
\* changes one of the two is a step of the thread that holds the lock.
C40_States ==
    \A t \in Threads :
        frame[t].pc \in {"ih_body", "hook_check", "hook_handle", "rh_body"} =>
            HOOK_LOCK = t

C40_Steps ==
    (HOOK_INSTALLED' # HOOK_INSTALLED \/ PATCH_APPLIED' # PATCH_APPLIED) =>
        /\ HOOK_LOCK \in Threads
        /\ frame'[HOOK_LOCK] # frame[HOOK_LOCK]
        /\ \A t \in Threads \ {HOOK_LOCK} : frame'[t] = frame[t]

C40_LockDiscipline == []C40_States /\ [][C40_Steps]_vars

\* C40 witness: the load observer holds the lock and is about to set _PATCH_APPLIED and
\* remove the hook after a successful attempt, while the other thread, inside
\* _remove_hook, waits for the lock.
C40_Witness ==
    /\ frame[Importer].pc = "hook_handle" /\ frame[Importer].result = "True"
    /\ HOOK_LOCK = Importer /\ HOOK_INSTALLED /\ ~PATCH_APPLIED
    /\ frame[2].pc = "rh_wait"

====
